---- MODULE Spec2Model ----
(***************************************************************************)
(* A model of news_bot.py: the resilient invocation layer (call_agent,     *)
(* call_agent_json), the self-modifying deployment engine                  *)
(* (run_self_evolution), the governance pass (manage_deadline_approvals),  *)
(* the dispatcher (run_autonomous_engine) with its caches and the report   *)
(* delivery, and the entry point that selects what a process runs.         *)
(*                                                                         *)
(* Texts are sequences of tokens.  A token stands for a fragment of text   *)
(* whose inside the program never looks into:                              *)
(*   "NL" newline, "SP" blanks, "*" a run of 1..3 stars, "H" a header      *)
(*   prefix ("## "), "N" a numbered-list prefix ("1. "), "B" a bullet      *)
(*   prefix ("- "), "LBL" a line of the form "Label:", "a" "b" "s" "p" "d" *)
(*   plain words, "{" "}" braces, "j" a well-formed JSON member list,      *)
(*   "n" a JSON scalar, "FJ" ```json, "FP" ```python, "FE" ```,            *)
(*   "STMT" a one-line Python statement, "BLK" a block header that is      *)
(*   letters and blanks before a colon ("try:", "if x:"), "BAD" a          *)
(*   fragment that is not Python, "ENG" "INI" "MAIN" one-line definitions  *)
(*   holding the three required signatures, "L297" / "L296" 297 / 296      *)
(*   lines of one-line statements, "DELAYED" / "NODATA" the two fixed      *)
(*   placeholder strings, "429" and the other words of an error message.   *)
(***************************************************************************)
EXTENDS Integers, Sequences, FiniteSets, TLC

VARIABLES
    \* ---- call_agent / call_agent_json (one activation) ----
    ca_pc,        \* "idle" | "attempt" | "returned" | "raised"
    ca_fn,        \* "call_agent" | "call_agent_json"
    ca_caller,    \* "harness" | "dev"
    ca_force,     \* force_one_line
    ca_attempt,   \* the loop variable of range(3)
    ca_trace,     \* what the activation did: service calls and sleeps, in order
    ca_ret,       \* the value returned
    cost_log,     \* rows of table cost_log written by record_cost
    action_logs,  \* action_type of the rows of table action_logs
    \* ---- run_self_evolution ----
    dev_pc,       \* position in run_self_evolution
    backlog_id,   \* its argument
    task,         \* local: the selected row, or NoTask
    cur_code,     \* local: the pre-image, or NoCode
    file_path,    \* local
    new_code,     \* local: the candidate
    disk,         \* content of the artifact files, by path
    git,          \* [index, head, remote]: content of the artifact in each
    code_backups, \* rows of table code_backups
    local_baks,   \* files under backups/
    dev_events,   \* what the invocation did, in order
    runs,         \* invocations of the process so far
    \* ---- datastore tables shared by the engine and governance ----
    dev_backlog,        \* set of rows
    pending_approvals,  \* set of rows
    agents,             \* agent_role -> instruction
    \* ---- manage_deadline_approvals ----
    gov_pc,       \* position in manage_deadline_approvals
    now,          \* NOW: <<hour, minute>>
    pending,      \* local: the rows selected, a sequence
    gov_i,        \* local: index of the current item
    gov_events,   \* what the passes did, in order
    \* ---- run_autonomous_engine ----
    eng_pc,        \* position in run_autonomous_engine
    eng_user,      \* index of the current row of user_settings
    eng_word,      \* index of the current keyword of that user
    eng_item,      \* index of the current item of news_list
    news_n,        \* local: len(news_list)
    by_keyword,    \* local: the entries recorded for the current user, in order
    topic_events,  \* what the current iteration of the keyword loop did
    user_events,   \* what the current iteration of the user loop did after the keywords
    eng_done,      \* how each iteration of the user loop ended, in order
    reports,          \* table reports, today's row of each user
    youtube_cache,    \* table youtube_cache, today's row of each keyword
    expert_cache,     \* table expert_content_cache, today's row of each keyword
    outbox,           \* users whose report of today the mail server accepted
    \* ---- send_email_report (one activation) ----
    send_pc,       \* "off" | "build" | "attempt" | "returned" | "raised"
    send_to,       \* its argument to_email, as the id of the user
    send_attempt,  \* the loop variable of range(3)
    send_trace,    \* the calls of _send_gmail and the sleeps, in order
    send_ret,      \* the value returned, "none" before
    \* ---- the writers of proposals: self-critique, initiative, BRIEF -> HR ----
    prop_pc,         \* "off" | "reflect" | "role" | "brief" | "hr" | "add" | "remove" | "done"
    prop_i,          \* index of the current role, or of the current approved item
    brief_proposal,  \* local of run_brief_hr_org_pipeline
    hr_decision,     \* local of run_brief_hr_org_pipeline
    prop_log,        \* what each generative call returned and what was stored for it
    \* ---- the entry point ----
    main          \* [pc, mode, backlog_id, env_backlog_id, cron_type, calls, exit]

caVars  == <<ca_pc, ca_fn, ca_caller, ca_force, ca_attempt, ca_trace, ca_ret,
             cost_log, action_logs>>
devVars == <<dev_pc, backlog_id, task, cur_code, file_path, new_code, disk, git,
             code_backups, local_baks, dev_events, runs>>
dbVars  == <<dev_backlog, pending_approvals, agents>>
govVars == <<gov_pc, now, pending, gov_i, gov_events>>
sendVars == <<send_pc, send_to, send_attempt, send_trace, send_ret>>
propVars == <<prop_pc, prop_i, brief_proposal, hr_decision, prop_log>>
engState == <<eng_pc, eng_user, eng_word, eng_item, news_n, by_keyword,
              topic_events, user_events, eng_done, reports, youtube_cache,
              expert_cache, outbox>>
engVars == <<engState, sendVars, propVars>>
vars    == <<caVars, devVars, dbVars, govVars, engVars, main>>

-----------------------------------------------------------------------------
(* Bounds of the model *)

\* process invocations of the deployment engine in one behaviour
MaxRuns == 1
\* governance passes in one behaviour
MaxPasses == 2

-----------------------------------------------------------------------------
(* Text helpers *)

WS == {"SP", "NL"}

Min(S) == CHOOSE x \in S : \A y \in S : x <= y
Max(S) == CHOOSE x \in S : \A y \in S : x >= y

Contains(t, tok) == \E i \in 1..Len(t) : t[i] = tok

Count(t, tok) == Cardinality({i \in 1..Len(t) : t[i] = tok})

\* str.find: index of the first occurrence, 0 when there is none
FindFirst(t, tok) ==
    IF Contains(t, tok) THEN Min({i \in 1..Len(t) : t[i] = tok}) ELSE 0

\* str.rfind: index of the last occurrence, 0 when there is none
FindLast(t, tok) ==
    IF Contains(t, tok) THEN Max({i \in 1..Len(t) : t[i] = tok}) ELSE 0

RECURSIVE LStrip(_)
LStrip(t) == IF t # <<>> /\ t[1] \in WS THEN LStrip(Tail(t)) ELSE t

RECURSIVE RStrip(_)
RStrip(t) ==
    IF t # <<>> /\ t[Len(t)] \in WS THEN RStrip(SubSeq(t, 1, Len(t) - 1)) ELSE t

\* str.strip()
Strip(t) == RStrip(LStrip(t))

\* str.split('\n'): never empty, a trailing newline gives a last empty piece
RECURSIVE Split(_)
Split(t) ==
    IF ~Contains(t, "NL") THEN <<t>>
    ELSE LET i == FindFirst(t, "NL")
         IN  <<SubSeq(t, 1, i - 1)>> \o Split(SubSeq(t, i + 1, Len(t)))

\* str.splitlines(): no piece for the empty text nor after a trailing newline
SplitLines(t) ==
    LET s == Split(t)
    IN  IF s[Len(s)] = <<>> THEN SubSeq(s, 1, Len(s) - 1) ELSE s

\* '\n'.join(lines)
RECURSIVE Join(_)
Join(ls) ==
    IF ls = <<>> THEN <<>>
    ELSE IF Len(ls) = 1 THEN ls[1]
    ELSE ls[1] \o <<"NL">> \o Join(Tail(ls))

\* re.sub(r'^<prefix>\s+', '', line): the prefix token holds its blanks
RemovePrefix(line, tok) ==
    IF line # <<>> /\ line[1] = tok THEN Tail(line) ELSE line

\* re.match(r'^[A-Za-z가-힣\s·\-_]+:\s*$', stripped)
IsLabelLine(line) == line \in {<<"LBL">>, <<"BLK">>}

\* the loop of strip_markdown: drop label lines, squeeze blank lines
RECURSIVE CleanLines(_, _)
CleanLines(ls, clean) ==
    IF ls = <<>> THEN clean
    ELSE LET stripped == Strip(ls[1])
         IN  IF IsLabelLine(stripped)
                 THEN CleanLines(Tail(ls), clean)
             ELSE IF stripped = <<>> /\ clean # <<>> /\ clean[Len(clean)] = <<>>
                 THEN CleanLines(Tail(ls), clean)
             ELSE CleanLines(Tail(ls), Append(clean, stripped))

strip_markdown(text) ==
    LET noStar   == SelectSeq(text, LAMBDA tok : tok # "*")
        perLine  == Split(noStar)
        unmarked == [i \in 1..Len(perLine) |->
                        RemovePrefix(RemovePrefix(RemovePrefix(perLine[i], "H"),
                                                  "N"), "B")]
        lines    == SplitLines(Join(unmarked))
    IN  Strip(Join(CleanLines(lines, <<>>)))

FirstLine(t) == Split(t)[1]

\* t[:n]
Prefix(t, n) == SubSeq(t, 1, IF n < Len(t) THEN n ELSE Len(t))

-----------------------------------------------------------------------------
(* Values returned by the invocation layer *)

Degraded == <<"DELAYED">>      \* "분석 지연 중"
NoData   == <<"NODATA">>       \* "분석 데이터 없음"

TextRet(t) == [kind |-> "text", text |-> t, points |-> <<>>, deep |-> <<>>]
JsonRet(s, p, d) == [kind |-> "json", text |-> s, points |-> p, deep |-> d]
NoRet == [kind |-> "none", text |-> <<>>, points |-> <<>>, deep |-> <<>>]

-----------------------------------------------------------------------------
(* The generative service, as the invocation layer sees it *)

\* what the harness lets the service answer
InvokeTexts ==
    { <<"a">>,
      <<"*", "a", "*", "NL", "LBL", "NL", "b">>,
      <<"H", "a", "NL", "NL", "NL", "N", "b", "SP">>,
      <<"{", "j", "}">>,
      <<"{", "}">>,
      <<"FJ", "NL", "{", "j", "}", "NL", "FE">>,
      <<"a", "SP", "{", "j", "}", "SP", "b">>,
      <<"*", "a", "NL", "{", "j">>,
      <<"n">>,
      <<>> }

\* the artifact of the deployment engine and what the service may propose for it
PrimaryOrig == <<"ENG", "NL", "INI", "NL", "MAIN", "NL", "L297">>
PrimaryGood == <<"ENG", "NL", "INI", "NL", "MAIN", "NL", "L297", "NL", "STMT">>
OtherOrig   == <<"STMT", "NL", "STMT">>

DevTexts ==
    { <<"FP", "NL">> \o PrimaryGood \o <<"NL", "FE">>,
      <<"FP", "NL">> \o PrimaryOrig \o <<"NL", "FE">>,
      <<"FP", "NL", "ENG", "NL", "INI", "NL", "MAIN", "NL", "L296", "NL", "FE">>,
      <<"FP", "NL", "ENG", "NL", "MAIN", "NL", "L297", "NL", "STMT", "NL", "FE">>,
      <<"FP", "NL", "BAD", "NL", "FE">>,
      <<"FP", "NL", "BLK", "NL", "SP", "STMT", "NL", "FE">>,
      <<"STMT">> }

ServiceTexts(caller) == IF caller = "dev" THEN DevTexts ELSE InvokeTexts

\* str(e) of what generate_content raises
ErrorMsgs == { <<"429", "RESOURCE_EXHAUSTED">>, <<"503", "UNAVAILABLE">> }

\* one call of google_genai.models.generate_content: it returns a response with
\* a text, a response whose text is None, or raises
ServiceOutcomes(caller) ==
    [kind : {"ok"}, text : ServiceTexts(caller)]
        \cup [kind : {"none"}, text : {<<>>}]
        \cup [kind : {"raise"}, text : ErrorMsgs]

-----------------------------------------------------------------------------
(* call_agent and call_agent_json *)

\* range(3)
MaxAttempts == 3

\* 5 * (attempt + 1)
BackoffBase == 5

\* time.sleep(2) after a parse failure
JsonParseWait == 2

\* [:80] of the first line, in tokens: every text of the model is shorter
SummaryCut == 80

\* text: what the service answered, or the message of what it raised
CallEv(out, text) == [ev |-> "call", out |-> out, secs |-> 0, text |-> text]
SleepEv(secs)     == [ev |-> "sleep", out |-> "", secs |-> secs, text |-> <<>>]

CaCalls  == Cardinality({i \in 1..Len(ca_trace) : ca_trace[i].ev = "call"})
CaSleeps == SelectSeq(ca_trace, LAMBDA e : e.ev = "sleep")

\* '429' in err and attempt < 2
\* faulty variant: every error is retried while attempts remain
IsRetryableAnyError(err, attempt) == attempt < 2

IsRetryable(err, attempt) == Contains(err, "429") /\ attempt < 2

\* faulty variant: the wait does not grow with the attempt
BackoffWaitFlat(attempt) == BackoffBase

BackoffWait(attempt) == BackoffBase * (attempt + 1)

\* output.split('\n')[0] if force_one_line else output
AgentOutput(text, force) ==
    LET output == strip_markdown(Strip(text))
    IN  IF force THEN FirstLine(output) ELSE output

\* re.sub(r"^```json\s*", "", raw)
DropJsonFenceOpen(raw) ==
    IF raw # <<>> /\ raw[1] = "FJ" THEN LStrip(Tail(raw)) ELSE raw

\* re.sub(r"\s*```$", "", raw)
DropFenceClose(raw) ==
    IF raw # <<>> /\ raw[Len(raw)] = "FE"
        THEN RStrip(SubSeq(raw, 1, Len(raw) - 1))
        ELSE raw

\* raw[brace_start:brace_end + 1] when both braces are found
BraceSlice(raw) ==
    LET brace_start == FindFirst(raw, "{")
        brace_end   == FindLast(raw, "}")
    IN  IF brace_start # 0 /\ brace_end # 0
            THEN SubSeq(raw, brace_start, brace_end)
            ELSE raw

JsonCandidate(text) ==
    BraceSlice(Strip(DropFenceClose(DropJsonFenceOpen(Strip(text)))))

\* json.loads: "dict" with the members, "nondict" for a value that is no object
\* (parsed.get then raises AttributeError), "error" for JSONDecodeError
JsonLoads(raw) ==
    IF raw = <<"{", "j", "}">>
        THEN [kind |-> "dict", summary |-> <<"*", "s">>,
              points |-> << <<"N", "p">> >>, deep |-> << <<"d">> >>]
    ELSE IF raw = <<"{", "}">>
        THEN [kind |-> "dict", summary |-> <<>>, points |-> <<>>, deep |-> <<>>]
    ELSE IF raw = <<"n">>
        THEN [kind |-> "nondict", summary |-> <<>>, points |-> <<>>, deep |-> <<>>]
    ELSE [kind |-> "error", summary |-> <<>>, points |-> <<>>, deep |-> <<>>]

\* lines 311-314: the parsed object with markdown removed from its values
JsonParsed(p) ==
    JsonRet(strip_markdown(p.summary),
            [i \in 1..Len(p.points) |-> strip_markdown(p.points[i])],
            [i \in 1..Len(p.deep) |-> strip_markdown(p.deep[i])])

\* line 327: the minimal structure after the last parse failure
\* faulty variant: the summary is cut from the whole raw text, not from its first line
JsonMinimalWholeText(text) ==
    JsonRet(strip_markdown(Prefix(Strip(text), SummaryCut)), <<>>, <<>>)

JsonMinimal(text) ==
    JsonRet(strip_markdown(Prefix(FirstLine(Strip(text)), SummaryCut)),
            <<>>, <<>>)

JsonDegraded == JsonRet(Degraded, <<>>, <<>>)
JsonNoData   == JsonRet(NoData, <<>>, <<>>)

\* entering call_agent(prompt, agent_info, ..., force_one_line) or
\* call_agent_json(prompt, agent_info): line 231 / 269 return at once when
\* agent_info is missing
CaEnter(fn, caller, hasAgent, force) ==
    /\ ca_fn' = fn
    /\ ca_caller' = caller
    /\ ca_force' = force
    /\ ca_attempt' = 0
    /\ ca_trace' = <<>>
    /\ IF hasAgent
          THEN ca_pc' = "attempt" /\ ca_ret' = NoRet
          ELSE /\ ca_pc' = "returned"
               /\ ca_ret' = IF fn = "call_agent" THEN TextRet(NoData) ELSE JsonNoData
    /\ UNCHANGED <<cost_log, action_logs>>

\* the end of one iteration that did not return: the next iteration, or the
\* return after the loop (line 263 / 341)
CaNextAttempt(degraded) ==
    IF ca_attempt + 1 < MaxAttempts
        THEN ca_attempt' = ca_attempt + 1 /\ ca_pc' = "attempt" /\ ca_ret' = ca_ret
        ELSE ca_attempt' = ca_attempt /\ ca_pc' = "returned" /\ ca_ret' = degraded

CaReturn(v) == ca_pc' = "returned" /\ ca_ret' = v /\ ca_attempt' = ca_attempt

\* faulty variant: a retryable error is retried without consuming an attempt
CaOnErrorUncounted(err, out, degraded) ==
    IF Contains(err, "429")
        THEN /\ ca_trace' = ca_trace \o
                    <<CallEv(out, err), SleepEv(BackoffWait(ca_attempt))>>
             /\ ca_attempt' = ca_attempt /\ ca_pc' = "attempt" /\ ca_ret' = ca_ret
        ELSE /\ ca_trace' = Append(ca_trace, CallEv(out, err))
             /\ CaReturn(degraded)

\* the handler `except Exception as e` of both functions (lines 254-262, 331-339)
CaOnError(err, out, degraded) ==
    IF IsRetryable(err, ca_attempt)
        THEN /\ ca_trace' = ca_trace \o
                    <<CallEv(out, err), SleepEv(BackoffWait(ca_attempt))>>
             /\ CaNextAttempt(degraded)
        ELSE /\ ca_trace' = Append(ca_trace, CallEv(out, err))
             /\ CaReturn(degraded)

\* record_cost after a call that returned: one row, or none when the insert fails
RecordCost(returned) ==
    IF returned
        THEN \E costOk \in BOOLEAN : cost_log' = cost_log + (IF costOk THEN 1 ELSE 0)
        ELSE cost_log' = cost_log

\* one iteration of the loop of call_agent (lines 236-262)
CallAgentAttempt ==
    /\ ca_pc = "attempt"
    /\ ca_fn = "call_agent"
    /\ \E o \in ServiceOutcomes(ca_caller) :
          /\ RecordCost(o.kind # "raise")
          /\ CASE o.kind = "ok" ->
                    /\ ca_trace' = Append(ca_trace, CallEv("ok", o.text))
                    /\ CaReturn(TextRet(AgentOutput(o.text, ca_force)))
               [] o.kind = "none" ->
                    \* res.text.strip() raises AttributeError: no '429' in it
                    CaOnError(<<"NoneType">>, "textnone", TextRet(Degraded))
               [] OTHER ->
                    CaOnError(o.text,
                              IF Contains(o.text, "429") THEN "raise429" ELSE "raise",
                              TextRet(Degraded))
    /\ UNCHANGED <<ca_fn, ca_caller, ca_force, action_logs>>

\* one iteration of the loop of call_agent_json (lines 285-339)
CallAgentJsonAttempt ==
    /\ ca_pc = "attempt"
    /\ ca_fn = "call_agent_json"
    /\ \E o \in ServiceOutcomes(ca_caller), logOk \in BOOLEAN :
          /\ RecordCost(o.kind # "raise")
          /\ CASE o.kind = "ok" ->
                    LET parsed == JsonLoads(JsonCandidate(o.text))
                    IN  CASE parsed.kind = "dict" ->
                                /\ ca_trace' = Append(ca_trace, CallEv("ok", o.text))
                                /\ CaReturn(JsonParsed(parsed))
                                /\ UNCHANGED action_logs
                          [] parsed.kind = "nondict" ->
                                /\ CaOnError(<<"AttributeError">>, "nondict", JsonDegraded)
                                /\ UNCHANGED action_logs
                          [] OTHER ->
                                \* except json.JSONDecodeError (lines 316-329)
                                IF ca_attempt = 2
                                    THEN /\ ca_trace' = Append(ca_trace, CallEv("parsefail", o.text))
                                         /\ action_logs' =
                                                IF logOk
                                                    THEN action_logs \cup {"JSON_PARSE_FAIL"}
                                                    ELSE action_logs
                                         /\ CaReturn(JsonMinimal(o.text))
                                    ELSE /\ ca_trace' = ca_trace \o
                                                <<CallEv("parsefail", o.text), SleepEv(JsonParseWait)>>
                                         /\ CaNextAttempt(JsonDegraded)
                                         /\ UNCHANGED action_logs
               [] o.kind = "none" ->
                    /\ CaOnError(<<"NoneType">>, "textnone", JsonDegraded)
                    /\ UNCHANGED action_logs
               [] OTHER ->
                    /\ CaOnError(o.text,
                                 IF Contains(o.text, "429") THEN "raise429" ELSE "raise",
                                 JsonDegraded)
                    /\ UNCHANGED action_logs
    /\ UNCHANGED <<ca_fn, ca_caller, ca_force>>

-----------------------------------------------------------------------------
(* _validate_generated_code and the extraction of the candidate *)

Paths == {"news_bot.py", "other.py"}

\* os.path.basename(file_path) == "news_bot.py"
IsPrimary(path) == path = "news_bot.py"

PyTokens == {"STMT", "ENG", "INI", "MAIN", "L297", "L296", "BLK", "SP", "NL"}

\* faulty variant: every text compiles
CompileOKLenient(code) == TRUE

\* compile(new_code, file_path, "exec") raises nothing: every fragment is
\* Python, a block header is followed by an indented line, and no other line
\* is indented
CompileOK(code) ==
    \A i \in 1..Len(code) :
        /\ code[i] \in PyTokens
        /\ code[i] = "BLK" =>
              i + 2 <= Len(code) /\ code[i + 1] = "NL" /\ code[i + 2] = "SP"
        /\ code[i] = "SP" => i >= 3 /\ code[i - 1] = "NL" /\ code[i - 2] = "BLK"

\* the three signatures of `required`
RequiredSyms == {"ENG", "INI", "MAIN"}

\* the floor of len(new_code.splitlines())
MinLines == 300

\* len(new_code.splitlines()): a block token counts its own lines
LineCount(code) ==
    Len(SplitLines(code)) + 296 * Count(code, "L297") + 295 * Count(code, "L296")

\* faulty variant: only the syntax is checked, for every file
ValidationErrorSyntaxOnly(path, code) ==
    IF ~CompileOK(code) THEN "SyntaxError" ELSE ""

\* "" when _validate_generated_code returns, else the exception it raises
ValidationError(path, code) ==
    IF ~CompileOK(code) THEN "SyntaxError"
    ELSE IF ~IsPrimary(path) THEN ""
    ELSE IF \E sig \in RequiredSyms : ~Contains(code, sig) THEN "ValueError:missing"
    ELSE IF LineCount(code) < MinLines THEN "ValueError:short"
    ELSE ""

PassesValidation(path, code) == ValidationError(path, code) = ""

IsFence(tok) == tok \in {"FE", "FP", "FJ"}

\* end of the run of blanks that starts at index i (i - 1 when there is none)
RECURSIVE WsRunEnd(_, _)
WsRunEnd(t, i) ==
    IF i <= Len(t) /\ t[i] \in WS THEN WsRunEnd(t, i + 1) ELSE i - 1

\* where the closing ``` of re.search(r"```python\s+(.*?)\s+```", raw, DOTALL)
\* lands for the opening fence at i; 0 when that opening gives no match
FenceClose(raw, i) ==
    LET k     == WsRunEnd(raw, i + 1)
        later == {j \in (k + 2)..Len(raw) : IsFence(raw[j]) /\ raw[j - 1] \in WS}
    IN  IF k < i + 1 THEN 0
        ELSE IF later # {} THEN Min(later)
        ELSE IF k >= i + 2 /\ k + 1 <= Len(raw) /\ IsFence(raw[k + 1]) THEN k + 1
        ELSE 0

\* new_code = m.group(1).strip() if m else raw.strip()
ExtractCode(raw) ==
    LET opens == {i \in 1..Len(raw) : raw[i] = "FP" /\ FenceClose(raw, i) # 0}
    IN  IF opens = {} THEN Strip(raw)
        ELSE LET i == Min(opens)
             IN  Strip(SubSeq(raw, i + 1, FenceClose(raw, i) - 1))

-----------------------------------------------------------------------------
(* run_self_evolution *)

NoTask == [id |-> "", status |-> "", affected_file |-> "", source_approval_id |-> ""]
NoCode == <<"None">>

TaskIds == {"t1"}

\* str.upper() of the status values of the model
Upper(st) ==
    CASE st = "developing" -> "DEVELOPING"
      [] st = "confirmed"  -> "CONFIRMED"
      [] st = "dev"        -> "DEV"
      [] st = "briefing"   -> "BRIEFING"
      [] OTHER -> st

\* faulty variant: the status is not looked at
DeployableAny(st) == TRUE

Deployable(st) == Upper(st) \in {"CONFIRMED", "DEVELOPING"}

DevEv(ev, arg, res) == [ev |-> ev, arg |-> arg, res |-> res]

Did(ev, arg, res) == \E i \in 1..Len(dev_events) : dev_events[i] = DevEv(ev, arg, res)
Tried(ev, arg) == \E i \in 1..Len(dev_events) :
                      dev_events[i].ev = ev /\ dev_events[i].arg = arg
TriedAny(ev) == \E i \in 1..Len(dev_events) : dev_events[i].ev = ev

Log(e) == dev_events' = Append(dev_events, e)

\* supabase.table("dev_backlog").update({"status": st}).eq("id", id)
WithStatus(rows, id, st) ==
    {IF t.id = id THEN [t EXCEPT !.status = st] ELSE t : t \in rows}

\* what a failed `with open(path, "w") as f: f.write(text)` leaves in the file:
\* its old content (open failed), nothing (truncated by open), or a part of text
AfterFailedWrite(old, text) ==
    {old, <<>>} \cup (IF Len(text) > 1 THEN {SubSeq(text, 1, 1)} ELSE {})

\* cur_code and file_path, as the handler tests them
HasPreImage == cur_code # NoCode /\ cur_code # <<>> /\ file_path # ""

devLocals == <<backlog_id, task, cur_code, file_path, new_code>>
devWorld  == <<disk, git, code_backups, local_baks>>

\* lines 774-776
DevStart ==
    /\ dev_pc = "start"
    /\ dev_pc' = IF backlog_id = "" THEN "done" ELSE "select"
    /\ UNCHANGED <<devLocals, devWorld, dev_events, runs, dbVars, caVars, govVars, engVars, main>>

\* lines 779-790: the select, the status check, file_path
DevSelect ==
    /\ dev_pc = "select"
    /\ \E ok \in BOOLEAN :
          IF ~ok
              THEN /\ dev_pc' = "exc"
                   /\ Log(DevEv("select", backlog_id, "raised"))
                   /\ UNCHANGED <<task, file_path>>
              ELSE LET found == {t \in dev_backlog : t.id = backlog_id}
                   IN  IF found = {}
                           THEN /\ dev_pc' = "done"
                                /\ Log(DevEv("select", backlog_id, "none"))
                                /\ UNCHANGED <<task, file_path>>
                           ELSE LET row == CHOOSE t \in found : TRUE
                                IN  /\ task' = row
                                    /\ IF Deployable(row.status)
                                          THEN /\ dev_pc' = "read"
                                               /\ file_path' = row.affected_file
                                               /\ Log(DevEv("select", backlog_id, "ok"))
                                          ELSE /\ dev_pc' = "done"
                                               /\ file_path' = file_path
                                               /\ Log(DevEv("select", backlog_id, "skip"))
    /\ UNCHANGED <<backlog_id, cur_code, new_code, devWorld, runs, dbVars, caVars, govVars, engVars, main>>

\* lines 792-793
DevRead ==
    /\ dev_pc = "read"
    /\ \E ok \in BOOLEAN :
          IF ok
              THEN /\ cur_code' = disk[file_path]
                   /\ dev_pc' = "backup"
                   /\ Log(DevEv("read", file_path, "ok"))
              ELSE /\ cur_code' = cur_code
                   /\ dev_pc' = "exc"
                   /\ Log(DevEv("read", file_path, "raised"))
    /\ UNCHANGED <<backlog_id, task, file_path, new_code, devWorld, runs, dbVars,
                   caVars, govVars, engVars, main>>

\* faulty variant: a failed insert is reported and the run goes on
DevBackupProceeds ==
    /\ dev_pc = "backup"
    /\ \E ok \in BOOLEAN :
          /\ code_backups' =
                 IF ok THEN code_backups \cup
                               {[file_path |-> file_path, code |-> cur_code,
                                 task_id |-> task.id]}
                       ELSE code_backups
          /\ dev_pc' = "local_copy"
          /\ Log(DevEv("backup", task.id, IF ok THEN "ok" ELSE "raised"))
    /\ UNCHANGED <<devLocals, disk, git, local_baks, runs, dbVars, caVars, govVars, engVars, main>>

\* lines 795-806: the insert into code_backups
DevBackup ==
    /\ dev_pc = "backup"
    /\ \E ok \in BOOLEAN :
          IF ok
              THEN /\ code_backups' = code_backups \cup
                          {[file_path |-> file_path, code |-> cur_code, task_id |-> task.id]}
                   /\ dev_pc' = "local_copy"
                   /\ Log(DevEv("backup", task.id, "ok"))
              ELSE /\ code_backups' = code_backups
                   /\ dev_pc' = "backup_notify"
                   /\ Log(DevEv("backup", task.id, "raised"))
    /\ UNCHANGED <<devLocals, disk, git, local_baks, runs, dbVars, caVars, govVars, engVars, main>>

\* _notify (lines 755-772): _send_gmail returns True or False, or raises and
\* the failure is logged to action_logs, best effort; nothing gets out
Notify(kind) ==
    \E res \in {"sent", "unsent", "raised", "raised_unlogged"} :
        /\ Log(DevEv("notify", kind, res))
        /\ action_logs' = IF res = "raised"
                              THEN action_logs \cup {"DEV_NOTIFY_FAIL"}
                              ELSE action_logs

\* faulty variant: a send that raised leaves run_self_evolution with the exception
AfterNotifyEscalates(nextPc) ==
    IF dev_events'[Len(dev_events')].res \in {"raised", "raised_unlogged"}
    THEN "raised" ELSE nextPc

\* where the engine goes on after _notify: _notify handles every exception of
\* the send itself (lines 759-772), so the statement after the call
AfterNotify(nextPc) == nextPc

caFrame == <<ca_pc, ca_fn, ca_caller, ca_force, ca_attempt, ca_trace, ca_ret, cost_log>>

\* line 807
DevBackupNotify ==
    /\ dev_pc = "backup_notify"
    /\ Notify("backup_failed")
    /\ dev_pc' = AfterNotify("backup_status")
    /\ UNCHANGED <<devLocals, devWorld, runs, dbVars, caFrame, govVars, engVars, main>>

\* faulty variant: an update that does not raise is not applied either
StatusUpdateLost(st, okPc, failPc) ==
    \E ok \in BOOLEAN :
        /\ dev_backlog' = dev_backlog
        /\ dev_pc' = IF ok THEN okPc ELSE failPc
        /\ Log(DevEv("status", st, IF ok THEN "ok" ELSE "raised"))

\* one update of the task's status: it is applied, or it raises
StatusUpdate(st, okPc, failPc) ==
    \E ok \in BOOLEAN :
        IF ok
            THEN /\ dev_backlog' = WithStatus(dev_backlog, task.id, st)
                 /\ dev_pc' = okPc
                 /\ Log(DevEv("status", st, "ok"))
            ELSE /\ dev_backlog' = dev_backlog
                 /\ dev_pc' = failPc
                 /\ Log(DevEv("status", st, "raised"))

\* lines 808-810
DevBackupStatus ==
    /\ dev_pc = "backup_status"
    /\ StatusUpdate("BACKUP_FAILED", "done", "exc")
    /\ UNCHANGED <<devLocals, devWorld, runs, pending_approvals, agents, caVars, govVars, engVars, main>>

\* lines 812-814
DevLocalCopy ==
    /\ dev_pc = "local_copy"
    /\ \E ok \in BOOLEAN :
          IF ok
              THEN /\ local_baks' = local_baks \cup
                          {[file_path |-> file_path, code |-> disk[file_path]]}
                   /\ dev_pc' = "get_agents"
                   /\ Log(DevEv("local_copy", file_path, "ok"))
              ELSE /\ local_baks' = local_baks
                   /\ dev_pc' = "exc"
                   /\ Log(DevEv("local_copy", file_path, "raised"))
    /\ UNCHANGED <<devLocals, disk, git, code_backups, runs, dbVars, caVars, govVars, engVars, main>>

\* lines 816-822: get_agents(), then the call of call_agent
DevGenerate ==
    /\ dev_pc = "get_agents"
    /\ \E ok \in BOOLEAN :
          IF ok
              THEN /\ CaEnter("call_agent", "dev", "DEV" \in DOMAIN agents, FALSE)
                   /\ dev_pc' = "generating"
                   /\ Log(DevEv("generate", "DEV", "called"))
              ELSE /\ dev_pc' = "exc"
                   /\ Log(DevEv("get_agents", "", "raised"))
                   /\ UNCHANGED caVars
    /\ UNCHANGED <<devLocals, devWorld, runs, dbVars, govVars, engVars, main>>

\* what call_agent gave back: a placeholder or a text of the service
RetClass(ret) ==
    IF ret.text = Degraded THEN "degraded"
    ELSE IF ret.text = NoData THEN "nodata"
    ELSE "text"

\* the activation of call_agent is over: its locals are gone
CaLeave ==
    /\ ca_pc' = "idle"
    /\ ca_attempt' = 0
    /\ ca_trace' = <<>>
    /\ ca_ret' = NoRet
    /\ UNCHANGED <<ca_fn, ca_caller, ca_force, cost_log, action_logs>>

\* lines 822-824: call_agent has returned
DevExtract ==
    /\ dev_pc = "generating"
    /\ ca_pc = "returned"
    /\ ca_caller = "dev"
    /\ new_code' = ExtractCode(ca_ret.text)
    /\ dev_pc' = "validate"
    /\ Log(DevEv("generate", "DEV", RetClass(ca_ret)))
    /\ CaLeave
    /\ UNCHANGED <<backlog_id, task, cur_code, file_path, devWorld, runs, dbVars, govVars, engVars, main>>

\* lines 826-829
DevValidate ==
    /\ dev_pc = "validate"
    /\ IF PassesValidation(file_path, new_code)
          THEN /\ dev_pc' = "write"
               /\ Log(DevEv("validate", "", "ok"))
          ELSE /\ dev_pc' = "rollback"
               /\ Log(DevEv("validate", "", ValidationError(file_path, new_code)))
    /\ UNCHANGED <<devLocals, devWorld, runs, dbVars, caVars, govVars, engVars, main>>

\* `with open(file_path, "w") as f: f.write(text)`
WriteFile(kind, text, okPc, failPc) ==
    \E ok \in BOOLEAN :
        IF ok
            THEN /\ disk' = [disk EXCEPT ![file_path] = text]
                 /\ dev_pc' = okPc
                 /\ Log(DevEv("write", kind, "ok"))
            ELSE /\ \E left \in AfterFailedWrite(disk[file_path], text) :
                        disk' = [disk EXCEPT ![file_path] = left]
                 /\ dev_pc' = failPc
                 /\ Log(DevEv("write", kind, "raised"))

\* lines 830-831
DevRollback ==
    /\ dev_pc = "rollback"
    /\ WriteFile("rollback", cur_code, "validation_notify", "exc")
    /\ UNCHANGED <<devLocals, git, code_backups, local_baks, runs, dbVars, caVars, govVars, engVars, main>>

\* line 840
DevValidationNotify ==
    /\ dev_pc = "validation_notify"
    /\ Notify("validation_failed")
    /\ dev_pc' = AfterNotify("validation_status")
    /\ UNCHANGED <<devLocals, devWorld, runs, dbVars, caFrame, govVars, engVars, main>>

\* lines 841-843
DevValidationStatus ==
    /\ dev_pc = "validation_status"
    /\ StatusUpdate("VALIDATION_ERROR", "done", "exc")
    /\ UNCHANGED <<devLocals, devWorld, runs, pending_approvals, agents, caVars, govVars, engVars, main>>

\* lines 845-846
DevWrite ==
    /\ dev_pc = "write"
    /\ WriteFile("candidate", new_code, "git_config", "exc")
    /\ UNCHANGED <<devLocals, git, code_backups, local_baks, runs, dbVars, caVars, govVars, engVars, main>>

\* _run_cmd: the command runs and exits 0, or RuntimeError is raised
\* lines 848-849
DevGitConfig ==
    /\ dev_pc = "git_config"
    /\ \E ok \in BOOLEAN :
          /\ dev_pc' = IF ok THEN "git_add" ELSE "exc"
          /\ Log(DevEv("git", "config", IF ok THEN "ok" ELSE "raised"))
    /\ UNCHANGED <<devLocals, devWorld, runs, dbVars, caVars, govVars, engVars, main>>

\* line 850
DevGitAdd ==
    /\ dev_pc = "git_add"
    /\ \E ok \in BOOLEAN :
          IF ok
              THEN /\ git' = [git EXCEPT !.index[file_path] = disk[file_path]]
                   /\ dev_pc' = "git_commit"
                   /\ Log(DevEv("git", "add", "ok"))
              ELSE /\ git' = git
                   /\ dev_pc' = "exc"
                   /\ Log(DevEv("git", "add", "raised"))
    /\ UNCHANGED <<devLocals, disk, code_backups, local_baks, runs, dbVars, caVars, govVars, engVars, main>>

\* lines 851-852: git commit exits 1 when nothing is staged
DevGitCommit ==
    /\ dev_pc = "git_commit"
    /\ \E ok \in BOOLEAN :
          IF ok /\ git.index # git.head
              THEN /\ git' = [git EXCEPT !.head = git.index]
                   /\ dev_pc' = "git_push"
                   /\ Log(DevEv("git", "commit", "ok"))
              ELSE /\ git' = git
                   /\ dev_pc' = "exc"
                   /\ Log(DevEv("git", "commit", "raised"))
    /\ UNCHANGED <<devLocals, disk, code_backups, local_baks, runs, dbVars, caVars, govVars, engVars, main>>

\* lines 853-854
DevGitPush ==
    /\ dev_pc = "git_push"
    /\ \E ok \in BOOLEAN :
          IF ok
              THEN /\ git' = [git EXCEPT !.remote = git.head]
                   /\ dev_pc' = "deployed_status"
                   /\ Log(DevEv("git", "push", "ok"))
              ELSE /\ git' = git
                   /\ dev_pc' = "exc"
                   /\ Log(DevEv("git", "push", "raised"))
    /\ UNCHANGED <<devLocals, disk, code_backups, local_baks, runs, dbVars, caVars, govVars, engVars, main>>

\* faulty variant: the status of the spec's wording
SuccessStatusCompleted == "COMPLETED"

\* the status written after the push (line 856)
SuccessStatus == "DEPLOYED"

\* lines 856-857
DevDeployedStatus ==
    /\ dev_pc = "deployed_status"
    /\ StatusUpdate(SuccessStatus, "deployed_notify", "exc")
    /\ UNCHANGED <<devLocals, devWorld, runs, pending_approvals, agents, caVars, govVars, engVars, main>>

\* line 859
DevDeployedNotify ==
    /\ dev_pc = "deployed_notify"
    /\ Notify("deployed")
    /\ dev_pc' = AfterNotify("done")
    /\ UNCHANGED <<devLocals, devWorld, runs, dbVars, caFrame, govVars, engVars, main>>

\* `except Exception as e`, line 864
DevExcNotify ==
    /\ dev_pc = "exc"
    /\ Notify("failed")
    /\ dev_pc' = AfterNotify("exc_status")
    /\ UNCHANGED <<devLocals, devWorld, runs, dbVars, caFrame, govVars, engVars, main>>

\* lines 865-867: an update that raises here leaves the function
DevExcStatus ==
    /\ dev_pc = "exc_status"
    /\ IF task # NoTask
          THEN StatusUpdate("DEPLOY_FAILED", "exc_restore", "raised")
          ELSE /\ dev_pc' = "exc_restore"
               /\ UNCHANGED <<dev_backlog, dev_events>>
    /\ UNCHANGED <<devLocals, devWorld, runs, pending_approvals, agents, caVars, govVars, engVars, main>>

\* lines 868-873: the restore, whose own failure is swallowed
DevExcRestore ==
    /\ dev_pc = "exc_restore"
    /\ IF HasPreImage
          THEN WriteFile("restore", cur_code, "done", "done")
          ELSE /\ dev_pc' = "done"
               /\ UNCHANGED <<disk, dev_events>>
    /\ UNCHANGED <<devLocals, git, code_backups, local_baks, runs, dbVars, caVars, govVars, engVars, main>>

\* run_self_evolution(id) is entered: its locals are fresh (lines 750-753)
DevEnter(id) ==
    /\ dev_pc \in {"off", "done", "raised"}
    /\ runs' = runs + 1
    /\ backlog_id' = id
    /\ dev_pc' = "start"
    /\ task' = NoTask
    /\ cur_code' = NoCode
    /\ file_path' = ""
    /\ new_code' = <<>>
    /\ dev_events' = <<>>
    /\ ca_pc' = "idle"
    /\ ca_trace' = <<>>
    /\ ca_ret' = NoRet
    /\ ca_attempt' = 0
    /\ UNCHANGED <<ca_fn, ca_caller, ca_force, cost_log, action_logs, devWorld, dbVars,
                   govVars, engVars, main>>

\* the process is started (python news_bot.py --mode dev --backlog-id ...)
DevInvoke ==
    /\ runs < MaxRuns
    /\ \E id \in TaskIds \cup {"", "t9"} : DevEnter(id)

\* the process is started once more with the id of the invocation before
DevAgain ==
    /\ runs = MaxRuns
    /\ backlog_id \in TaskIds
    /\ DevEnter(backlog_id)

-----------------------------------------------------------------------------
(* manage_deadline_approvals *)

\* the values NOW takes when a pass starts
Times == { <<9, 0>>, <<23, 29>>, <<23, 30>>, <<23, 59>> }

\* faulty variant: the half hour itself is not yet past the cutoff
PastCutoffLate(t) == t[1] = 23 /\ t[2] > 30

\* faulty variant: the pass does not look at the clock
PastCutoffAlways(t) == TRUE

\* NOW.hour == 23 and NOW.minute >= 30
CutoffHour == 23
CutoffMinute == 30
PastCutoff(t) == t[1] = CutoffHour /\ t[2] >= CutoffMinute

\* ids the datastore gives to new rows of dev_backlog, in order
IdNames == <<"t1", "t2", "t3", "t4", "t5", "t6", "t7", "t8">>

FreshTaskId(rows) ==
    IdNames[Min({i \in 1..Len(IdNames) : \A t \in rows : t.id # IdNames[i]})]

\* .select("*").eq("status", "PENDING")
PendingRows(rows) == {p \in rows : p.status = "PENDING"}

\* the sequences that list the rows of a set once each
Orderings(S) ==
    {f \in [1..Cardinality(S) -> S] : \A i, j \in 1..Cardinality(S) : f[i] = f[j] => i = j}

\* .select("id").eq("source_approval_id", item['id']) has rows
DupExists(rows, id) == \E t \in rows : t.source_approval_id = id

\* faulty variant: the row names the first proposal of the pass, not the current one
NewBacklogRowFirstItem(rows, item) ==
    [id |-> FreshTaskId(rows), status |-> "PENDING_MASTER",
     affected_file |-> "news_bot.py", source_approval_id |-> pending[1].id]

\* faulty variant: governance confirms the task it creates
NewBacklogRowConfirmed(rows, item) ==
    [id |-> FreshTaskId(rows), status |-> "CONFIRMED",
     affected_file |-> "news_bot.py", source_approval_id |-> item.id]

\* the row of lines 932-939
NewBacklogRow(rows, item) ==
    [id |-> FreshTaskId(rows), status |-> "PENDING_MASTER",
     affected_file |-> "news_bot.py", source_approval_id |-> item.id]

GovEv(ev, id, res) == [ev |-> ev, id |-> id, res |-> res]
GovLog(e) == gov_events' = Append(gov_events, e)

Item == pending[gov_i]

\* the end of one iteration of `for item in pending.data`
GovNextItem == gov_i' = gov_i + 1 /\ gov_pc' = "item"

\* `except Exception as e` (line 942): the pass ends
GovAbort == gov_pc' = "done" /\ gov_i' = gov_i

\* the process is started (--mode GOVERNANCE, or BRIEFING before the engine)
GovInvoke ==
    /\ gov_pc \in {"off", "done"}
    /\ Len(SelectSeq(gov_events, LAMBDA e : e.ev = "pass")) < MaxPasses
    /\ \E t \in Times :
          /\ now' = t
          /\ gov_pc' = IF PastCutoff(t) THEN "select" ELSE "done"
          /\ GovLog(GovEv("pass", "", IF PastCutoff(t) THEN "run" ELSE "early"))
    /\ pending' = <<>>
    /\ gov_i' = 1
    /\ UNCHANGED <<dbVars, devVars, caVars, engVars, main>>

\* line 914
GovSelect ==
    /\ gov_pc = "select"
    /\ \E ok \in BOOLEAN :
          IF ok
              THEN /\ \E order \in Orderings(PendingRows(pending_approvals)) :
                          pending' = order
                   /\ gov_pc' = "item"
                   /\ GovLog(GovEv("select", "", "ok"))
              ELSE /\ pending' = pending
                   /\ gov_pc' = "done"
                   /\ GovLog(GovEv("select", "", "raised"))
    /\ UNCHANGED <<gov_i, now, dbVars, devVars, caVars, engVars, main>>

\* faulty variant: writing an instruction the role already has reverts it
SetInstructionToggle(ags, role, instr) ==
    [r \in DOMAIN ags |->
        IF r = role THEN (IF ags[r] = instr THEN "i0" ELSE instr) ELSE ags[r]]

\* supabase.table("agents").update({"instruction": instr}).eq("agent_role", role)
SetInstruction(ags, role, instr) ==
    [r \in DOMAIN ags |-> IF r = role THEN instr ELSE ags[r]]

\* lines 915-918: the loop head and the update of the role's instruction
GovInstruction ==
    /\ gov_pc = "item"
    /\ IF gov_i > Len(pending)
          THEN /\ gov_pc' = "done"
               /\ UNCHANGED <<agents, gov_events>>
          ELSE \E ok \in BOOLEAN :
                  IF ok
                      THEN /\ agents' = SetInstruction(agents, Item.agent_role,
                                                        Item.proposed_instruction)
                           /\ gov_pc' = "approve"
                           /\ GovLog(GovEv("instruction", Item.id, "ok"))
                      ELSE /\ agents' = agents
                           /\ gov_pc' = "done"
                           /\ GovLog(GovEv("instruction", Item.id, "raised"))
    /\ UNCHANGED <<gov_i, now, pending, dev_backlog, pending_approvals, devVars, caVars, engVars, main>>

\* faulty variant: the proposal is marked EXECUTED
GovApproveExecuted ==
    /\ gov_pc = "approve"
    /\ \E ok \in BOOLEAN :
          IF ok
              THEN /\ pending_approvals' = WithStatus(pending_approvals, Item.id, "EXECUTED")
                   /\ gov_pc' = "followup"
                   /\ GovLog(GovEv("approve", Item.id, "ok"))
              ELSE /\ pending_approvals' = pending_approvals
                   /\ gov_pc' = "done"
                   /\ GovLog(GovEv("approve", Item.id, "raised"))
    /\ UNCHANGED <<gov_i, now, pending, dev_backlog, agents, devVars, caVars, engVars, main>>

\* lines 920-922
GovApprove ==
    /\ gov_pc = "approve"
    /\ \E ok \in BOOLEAN :
          IF ok
              THEN /\ pending_approvals' = WithStatus(pending_approvals, Item.id, "APPROVED")
                   /\ gov_pc' = "followup"
                   /\ GovLog(GovEv("approve", Item.id, "ok"))
              ELSE /\ pending_approvals' = pending_approvals
                   /\ gov_pc' = "done"
                   /\ GovLog(GovEv("approve", Item.id, "raised"))
    /\ UNCHANGED <<gov_i, now, pending, dev_backlog, agents, devVars, caVars, engVars, main>>

\* lines 924-931: needs_dev and the duplicate check
GovFollowup ==
    /\ gov_pc = "followup"
    /\ IF ~Item.needs_dev
          THEN GovNextItem /\ UNCHANGED gov_events
          ELSE \E ok \in BOOLEAN :
                  IF ~ok
                      THEN GovAbort /\ GovLog(GovEv("dup", Item.id, "raised"))
                      ELSE IF DupExists(dev_backlog, Item.id)
                          THEN GovNextItem /\ GovLog(GovEv("dup", Item.id, "skip"))
                          ELSE /\ gov_pc' = "insert"
                               /\ gov_i' = gov_i
                               /\ UNCHANGED gov_events
    /\ UNCHANGED <<now, pending, dbVars, devVars, caVars, engVars, main>>

\* lines 932-939
GovInsert ==
    /\ gov_pc = "insert"
    /\ \E ok \in BOOLEAN :
          IF ok
              THEN /\ dev_backlog' = dev_backlog \cup {NewBacklogRow(dev_backlog, Item)}
                   /\ GovNextItem
                   /\ GovLog(GovEv("insert", Item.id, "ok"))
              ELSE /\ dev_backlog' = dev_backlog
                   /\ GovAbort
                   /\ GovLog(GovEv("insert", Item.id, "raised"))
    /\ UNCHANGED <<now, pending, pending_approvals, agents, devVars, caVars, engVars, main>>

-----------------------------------------------------------------------------
(* run_autonomous_engine, its caches and the report delivery *)

\* keywords[:5]
KeywordCap == 5
\* most items a collection of news returns in the model
MaxItems == 2
\* most items a collection of expert contents returns in the model
MaxExpert == 1
\* expert_contents[:3]
ExpertCap == 3
\* for attempt in range(3) of send_email_report
SendAttempts == 3
\* for retry in range(3) around the update of email_sent
FlagRetries == 3

\* table user_settings: the program only reads it
user_settings ==
    << [id |-> "u1", keywords |-> <<"k1", "k2">>],
       [id |-> "u2", keywords |-> <<>>],
       [id |-> "u3", keywords |-> <<"k1">>] >>

UserIds == {user_settings[i].id : i \in 1..Len(user_settings)}
Keywords == {"k1", "k2"}
EngRoles == {"BRIEF", "BA", "STOCK", "PM", "HR"}

\* a cache holds, for a keyword, no row of today or the value some collection
\* returned: the id of the user whose iteration collected it, or "earlier" for
\* a process that ran before
NoRow == "none"

\* today's row of a user in table reports
NoReport == [stored |-> FALSE, content |-> <<>>, email_sent |-> FALSE]
ReportRow(content, sent) == [stored |-> TRUE, content |-> content, email_sent |-> sent]
\* by_keyword[word] of lines 1299-1307 and of lines 1369-1386
Placeholder(word) == [word |-> word, kind |-> "no_news", videos |-> NoRow]
Analysed(word, videos) == [word |-> word, kind |-> "analysed", videos |-> videos]
OldContent == <<Placeholder("k1")>>

EngEv(what, of, how) == [what |-> what, of |-> of, how |-> how]

CurUser == user_settings[eng_user]
\* line 1271
CurKeywords == Prefix(CurUser.keywords, KeywordCap)
CurWord == CurKeywords[eng_word]

\* the last result logged for a step of the user loop, "none" if it did not run
How(events, what) ==
    LET idx == {i \in 1..Len(events) : events[i].what = what}
    IN  IF idx = {} THEN "none" ELSE events[Max(idx)].how

\* the ends of an iteration that an exception made
RaisedEnds == {"raised", "topic_raised", "chk_raised"}

\* faulty variant: an exception of an iteration leaves the function
AfterUserEscalates(end) == IF end \in RaisedEnds THEN "raised" ELSE "user"

\* lines 1443-1445: the handler of the user loop prints and continues, as an
\* iteration that ends without an exception does
AfterUser(end) == "user"

\* the iteration of the user loop ends: continue, or the handler of line 1443
EngEndUser(end, events) ==
    /\ eng_done' = Append(eng_done,
                     [user |-> CurUser.id, end |-> end,
                      topics |-> Len(CurKeywords), words |-> Len(by_keyword),
                      writes |-> Len(SelectSeq(events, LAMBDA e : e.what = "upsert")),
                      upsert |-> How(events, "upsert"), send |-> How(events, "send"),
                      flag |-> How(events, "update")])
    /\ eng_user' = eng_user + 1
    /\ eng_pc' = AfterUser(end)
    /\ eng_word' = 1
    /\ eng_item' = 1
    /\ news_n' = 0
    /\ by_keyword' = <<>>
    /\ topic_events' = <<>>
    /\ user_events' = <<>>

\* python news_bot.py --mode BRIEFING: lines 1263-1266, outside any handler
EngInvoke ==
    /\ eng_pc = "off"
    /\ \E res \in {"ok", "raised"} :
          eng_pc' = IF res = "ok" THEN "user" ELSE "raised"
    /\ eng_user' = 1
    /\ UNCHANGED <<eng_word, eng_item, news_n, by_keyword, topic_events, user_events,
                   eng_done, reports, youtube_cache, expert_cache, outbox>>
    /\ UNCHANGED <<caVars, devVars, dbVars, govVars, main, sendVars, propVars>>

\* faulty variant: the flag of today's report is not looked at
AlreadySentIgnored(row) == FALSE

\* if chk.data and chk.data[0].get("email_sent"): (line 1276)
AlreadySent(row) == row.stored /\ row.email_sent

\* lines 1267-1283: the head of the user loop
EngUser ==
    /\ eng_pc = "user"
    /\ IF eng_user > Len(user_settings)
       THEN /\ eng_pc' = "after"
            /\ UNCHANGED <<eng_user, eng_word, eng_item, news_n, by_keyword,
                           topic_events, user_events, eng_done>>
       ELSE IF CurKeywords = <<>>
       THEN EngEndUser("no_keywords", <<>>)
       ELSE \E chk \in {"ok", "raised"} :
               IF chk = "raised"
               THEN EngEndUser("chk_raised", <<>>)
               ELSE IF AlreadySent(reports[CurUser.id])
               THEN EngEndUser("already_sent", <<>>)
               ELSE /\ eng_pc' = "word"
                    /\ eng_word' = 1
                    /\ by_keyword' = <<>>
                    /\ topic_events' = <<>>
                    /\ user_events' = <<>>
                    /\ UNCHANGED <<eng_user, eng_item, news_n, eng_done>>
    /\ UNCHANGED <<reports, youtube_cache, expert_cache, outbox>>
    /\ UNCHANGED <<caVars, devVars, dbVars, govVars, main, sendVars, propVars>>

\* brief_get_source_directive: one call_agent when there is a BRIEF agent; what
\* the answer cannot be parsed into is replaced by {}
DirectiveEvents ==
    IF "BRIEF" \in DOMAIN agents THEN <<EngEv("call", "directive", "")>> ELSE <<>>

\* lines 1285-1308: the head of the keyword loop, up to the news of the keyword
EngCollect ==
    /\ eng_pc = "word"
    /\ IF eng_word > Len(CurKeywords)
       THEN /\ eng_pc' = "hr"
            /\ UNCHANGED <<eng_user, eng_word, eng_item, news_n, by_keyword,
                           topic_events, user_events, eng_done>>
       ELSE LET start == <<EngEv("topic", CurWord, "")>> \o DirectiveEvents
            IN  \/ \* collect_news_by_directive raises (line 1137 is in no handler)
                   EngEndUser("topic_raised", <<>>)
                \/ \* no news: the placeholder entry, and continue
                   /\ topic_events' = start \o <<EngEv("collect", "news", "empty"),
                                                 EngEv("recorded", CurWord, "no_news")>>
                   /\ by_keyword' = Append(by_keyword, Placeholder(CurWord))
                   /\ news_n' = 0
                   /\ eng_word' = eng_word + 1
                   /\ UNCHANGED <<eng_pc, eng_user, eng_item, user_events, eng_done>>
                \/ \E n \in 1..MaxItems :
                      /\ topic_events' = start \o <<EngEv("collect", "news", "ok")>>
                      /\ news_n' = n
                      /\ eng_item' = 1
                      /\ eng_pc' = "items"
                      /\ UNCHANGED <<eng_user, eng_word, by_keyword, user_events, eng_done>>
    /\ UNCHANGED <<reports, youtube_cache, expert_cache, outbox>>
    /\ UNCHANGED <<caVars, devVars, dbVars, govVars, main, sendVars, propVars>>

\* lines 1312-1328: one item of news_list, two calls of call_agent
EngItem ==
    /\ eng_pc = "items"
    /\ IF "BRIEF" \notin DOMAIN agents
       THEN EngEndUser("topic_raised", <<>>)
       ELSE /\ topic_events' = topic_events \o <<EngEv("call", "pm_summary", ""),
                                                 EngEv("call", "impact", "")>>
            /\ eng_item' = eng_item + 1
            /\ eng_pc' = IF eng_item = news_n THEN "youtube" ELSE "items"
            /\ UNCHANGED <<eng_user, eng_word, news_n, by_keyword, user_events, eng_done>>
    /\ UNCHANGED <<reports, youtube_cache, expert_cache, outbox>>
    /\ UNCHANGED <<caVars, devVars, dbVars, govVars, main, sendVars, propVars>>

\* faulty variant: when the write fails the call returns nothing
CacheCallWriteNeeded(name, tbl, word, fresh) ==
    LET reads == (IF tbl[word] = NoRow THEN {"miss"} ELSE {}) \cup {"raised"}
    IN  (IF tbl[word] # NoRow
         THEN {[events |-> <<EngEv("select", name, "hit"),
                             EngEv("return", name, tbl[word])>>,
                raised |-> FALSE, ret |-> tbl[word], tbl |-> tbl]}
         ELSE {})
        \cup {[events |-> <<EngEv("select", name, r), EngEv("collect", name, "raised")>>,
                raised |-> TRUE, ret |-> NoRow, tbl |-> tbl] : r \in reads}
        \cup {[events |-> <<EngEv("select", name, r), EngEv("collect", name, "ok"),
                            EngEv("upsert", name, "ok"), EngEv("return", name, fresh)>>,
                raised |-> FALSE, ret |-> fresh,
                tbl |-> [tbl EXCEPT ![word] = fresh]] : r \in reads}
        \cup {[events |-> <<EngEv("select", name, r), EngEv("collect", name, "ok"),
                            EngEv("upsert", name, "raised"), EngEv("return", name, NoRow)>>,
                raised |-> FALSE, ret |-> NoRow, tbl |-> tbl] : r \in reads}

\* get_youtube_with_cache and get_expert_with_cache, which differ in the table
\* and the collector only: what a call can do, given the table.  Each outcome
\* is the events of the call, whether it raised, the value returned and the
\* table afterwards.
CacheCall(name, tbl, word, fresh) ==
    LET hit == [events |-> <<EngEv("select", name, "hit"),
                             EngEv("return", name, tbl[word])>>,
                raised |-> FALSE, ret |-> tbl[word], tbl |-> tbl]
        \* the select answered no row, or raised and was logged
        reads == (IF tbl[word] = NoRow THEN {"miss"} ELSE {}) \cup {"raised"}
        collectRaised(r) ==
               [events |-> <<EngEv("select", name, r), EngEv("collect", name, "raised")>>,
                raised |-> TRUE, ret |-> NoRow, tbl |-> tbl]
        collected(r, w) ==
               [events |-> <<EngEv("select", name, r), EngEv("collect", name, "ok"),
                             EngEv("upsert", name, w), EngEv("return", name, fresh)>>,
                raised |-> FALSE, ret |-> fresh,
                tbl |-> IF w = "ok" THEN [tbl EXCEPT ![word] = fresh] ELSE tbl]
    IN  (IF tbl[word] # NoRow THEN {hit} ELSE {})
        \cup {collectRaised(r) : r \in reads}
        \cup {collected(r, w) : r \in reads, w \in {"ok", "raised"}}

\* line 1331
EngYoutube ==
    /\ eng_pc = "youtube"
    /\ \E o \in CacheCall("youtube_cache", youtube_cache, CurWord, CurUser.id) :
          /\ youtube_cache' = o.tbl
          /\ IF o.raised
             THEN EngEndUser("topic_raised", <<>>)
             ELSE /\ topic_events' = topic_events \o o.events
                  /\ eng_pc' = "expert"
                  /\ UNCHANGED <<eng_user, eng_word, eng_item, news_n, by_keyword,
                                 user_events, eng_done>>
    /\ UNCHANGED <<reports, expert_cache, outbox>>
    /\ UNCHANGED <<caVars, devVars, dbVars, govVars, main, sendVars, propVars>>

\* the value of yt_videos that line 1331 left
VideosOf(events) ==
    LET idx == {i \in 1..Len(events) :
                   events[i].what = "return" /\ events[i].of = "youtube_cache"}
    IN  IF idx = {} THEN NoRow ELSE events[Max(idx)].how

\* lines 1335-1357: the cached expert contents, replaced at once by those of
\* collect_expert_contents (which handles its own errors), and one call_agent
\* for each of the first three of them
EngExpert ==
    /\ eng_pc = "expert"
    /\ \E o \in CacheCall("expert_cache", expert_cache, CurWord, CurUser.id) :
          /\ expert_cache' = o.tbl
          /\ IF o.raised
             THEN EngEndUser("topic_raised", <<>>)
             ELSE \E m \in 0..Min({MaxExpert, ExpertCap}) :
                  /\ topic_events' =
                        topic_events \o o.events
                        \o <<EngEv("collect", "expert", "ok")>>
                        \o [i \in 1..m |-> EngEv("call", "expert_summary", "")]
                  /\ eng_pc' = "analyse"
                  /\ UNCHANGED <<eng_user, eng_word, eng_item, news_n, by_keyword,
                                 user_events, eng_done>>
    /\ UNCHANGED <<reports, youtube_cache, outbox>>
    /\ UNCHANGED <<caVars, devVars, dbVars, govVars, main, sendVars, propVars>>

\* lines 1369-1386: three calls of call_agent_json, and the entry of the keyword
EngAnalyse ==
    /\ eng_pc = "analyse"
    /\ IF ~({"BA", "STOCK", "PM"} \subseteq DOMAIN agents)
       THEN EngEndUser("topic_raised", <<>>)
       ELSE /\ topic_events' =
                  topic_events \o <<EngEv("call", "ba_brief", ""),
                                    EngEv("call", "securities_brief", ""),
                                    EngEv("call", "pm_brief", ""),
                                    EngEv("recorded", CurWord, "analysed")>>
            /\ by_keyword' = Append(by_keyword, Analysed(CurWord, VideosOf(topic_events)))
            /\ eng_word' = eng_word + 1
            /\ eng_pc' = "word"
            /\ UNCHANGED <<eng_user, eng_item, news_n, user_events, eng_done>>
    /\ UNCHANGED <<reports, youtube_cache, expert_cache, outbox>>
    /\ UNCHANGED <<caVars, devVars, dbVars, govVars, main, sendVars, propVars>>

\* faulty variant: the delivery follows whatever the upsert answered
HasDataAlways(res) == TRUE

\* if res.data: (line 1410)
HasData(res) == res = "ok"

\* lines 1388-1408: hr_proposal and the upsert of the report, made once.  An
\* upsert that raises stores nothing; one that answers no row may or may not
\* have stored the report.
EngUpsert ==
    /\ eng_pc = "hr"
    /\ IF by_keyword = <<>>
       THEN EngEndUser("no_data", <<>>) /\ UNCHANGED reports
       ELSE IF "HR" \notin DOMAIN agents
       THEN EngEndUser("raised", <<>>) /\ UNCHANGED reports
       ELSE LET u == CurUser.id
                row == ReportRow(by_keyword, reports[u].email_sent)
                hr == <<EngEv("call", "hr_proposal", "")>>
            IN  \/ /\ EngEndUser("raised", hr \o <<EngEv("upsert", "reports", "raised")>>)
                   /\ UNCHANGED reports
                \/ \E res \in {"ok", "empty"}, stored \in BOOLEAN :
                      /\ res = "ok" => stored
                      /\ reports' = IF stored THEN [reports EXCEPT ![u] = row] ELSE reports
                      /\ IF HasData(res)
                         THEN /\ user_events' = hr \o <<EngEv("upsert", "reports", res)>>
                              /\ eng_pc' = "reflect"
                              /\ UNCHANGED <<eng_user, eng_word, eng_item, news_n,
                                             by_keyword, topic_events, eng_done>>
                         ELSE EngEndUser("not_stored",
                                         hr \o <<EngEv("upsert", "reports", res)>>)
    /\ UNCHANGED <<youtube_cache, expert_cache, outbox>>
    /\ UNCHANGED <<caVars, devVars, dbVars, govVars, main, sendVars, propVars>>

Proposal(id, role, instr, nd, st) ==
    [id |-> id, agent_role |-> role, proposed_instruction |-> instr,
     needs_dev |-> nd, status |-> st]

\* table report_feedback, which the program only reads: the users on whose
\* report of today a reader left negative feedback, and the agent it is about
FeedbackOn == {"u3"}
FeedbackRole == "PM"

\* the row of lines 900-905; the status is left to the column's default
ReflectionRow(nd) == Proposal("r1", FeedbackRole, "voc", nd, "default")

\* what run_agent_self_reflection does for the report of a user: the select of
\* the feedback raises or finds none; get_agents raises; call_agent returns a
\* degraded sentinel, an answer without [PROPOSAL], or a proposal, whose
\* insert is made or raises.  Every exception ends in the except of line 906.
ReflectResults(u) ==
    IF u \in FeedbackOn /\ FeedbackRole \in DOMAIN agents
    THEN {"select_raised", "no_feedback", "agents_raised", "degraded",
          "no_proposal", "inserted", "insert_raised"}
    ELSE {"select_raised", "no_feedback"}

ReflectFailures == {"select_raised", "agents_raised", "degraded", "insert_raised"}

\* faulty variant: a failure of the self-critique skips the delivery
AfterReflectSkips(res) == IF res \in ReflectFailures THEN "flag" ELSE "send"

\* line 1412 returns to line 1415 whatever happened inside
AfterReflect(res) == "send"

\* line 1412: run_agent_self_reflection(report_id), lines 878-906
EngReflect ==
    /\ eng_pc = "reflect"
    /\ \E res \in ReflectResults(CurUser.id), nd \in BOOLEAN :
          /\ res # "inserted" => ~nd
          /\ pending_approvals' = IF res = "inserted"
                                  THEN pending_approvals \cup {ReflectionRow(nd)}
                                  ELSE pending_approvals
          /\ user_events' = Append(user_events,
                 EngEv("reflect", "", IF res \in ReflectFailures THEN "failed" ELSE "ok"))
          /\ eng_pc' = AfterReflect(res)
    /\ UNCHANGED <<eng_user, eng_word, eng_item, news_n, by_keyword, topic_events,
                   eng_done, reports, youtube_cache, expert_cache, outbox>>
    /\ UNCHANGED <<caVars, devVars, dev_backlog, agents, govVars, main, sendVars, propVars>>

\* the results of send_email_report: True after 1..3 attempts of _send_gmail,
\* False after 3, or the exception of _build_email_html
SendOutcomes ==
    {<<"raised", 0>>, <<"failed", SendAttempts>>} \cup {<<"ok", a>> : a \in 1..SendAttempts}

AttemptNames == <<"1", "2", "3", "4", "5">>

\* line 1415: send_email_report
EngSend ==
    /\ eng_pc = "send"
    /\ \E o \in SendOutcomes :
          /\ outbox' = IF o[1] = "ok" THEN outbox \cup {CurUser.id} ELSE outbox
          /\ IF o[1] = "raised"
             THEN EngEndUser("raised", user_events \o <<EngEv("send", "", "raised")>>)
             ELSE /\ user_events' =
                        Append(user_events, EngEv("send", "", o[1]))
                  /\ eng_pc' = "flag"
                  /\ UNCHANGED <<eng_user, eng_word, eng_item, news_n, by_keyword,
                                 topic_events, eng_done>>
    /\ UNCHANGED <<reports, youtube_cache, expert_cache>>
    /\ UNCHANGED <<caVars, devVars, dbVars, govVars, main, sendVars, propVars>>

\* the local email_success
EmailSuccess(events) == How(events, "send") = "ok"

\* faulty variant: the flag is set whatever the send returned
FlagValueAlways(events) == TRUE

\* the value of line 1420
FlagValue(events) == EmailSuccess(events)

\* the attempts of the loop of line 1418 made so far for the current user
FlagTries(events) == Len(SelectSeq(events, LAMBDA e : e.what = "update"))

\* faulty variant: the last failure of the update is raised to the user loop
FlagEndRaises(how) == IF how = "failed" THEN "raised" ELSE "completed"

\* lines 1423 and 1428-1441: break, or the mail to the administrator inside
\* try/except pass; the iteration of the user loop ends at line 1441
FlagEnd(how) == "completed"

\* lines 1418-1438: one attempt of the update of email_sent.  An attempt that
\* raises is followed by a sleep and another attempt while retry < 2; after
\* the third one a mail to the administrator is tried, best effort.
EngFlag ==
    /\ eng_pc = "flag"
    /\ LET u == CurUser.id
           retry == FlagTries(user_events)
           name == AttemptNames[retry + 1]
       IN  IF retry >= FlagRetries
           THEN /\ EngEndUser(FlagEnd("failed"), user_events)
                /\ UNCHANGED reports
           ELSE \/ /\ reports' = [reports EXCEPT ![u].email_sent = FlagValue(user_events)]
                   /\ EngEndUser(FlagEnd("ok"),
                         Append(user_events, EngEv("update", name, "ok")))
                \/ /\ UNCHANGED reports
                   /\ IF retry < 2
                      THEN /\ user_events' =
                                 Append(user_events, EngEv("update", name, "raised"))
                           /\ UNCHANGED <<eng_pc, eng_user, eng_word, eng_item, news_n,
                                          by_keyword, topic_events, eng_done>>
                      ELSE EngEndUser(FlagEnd("failed"),
                              Append(user_events, EngEv("update", name, "failed")))
    /\ UNCHANGED <<youtube_cache, expert_cache, outbox>>
    /\ UNCHANGED <<caVars, devVars, dbVars, govVars, main, sendVars, propVars>>

\* faulty variant: the initiative registers its task as confirmed
InitiativeRowConfirmed(rows) ==
    [id |-> FreshTaskId(rows), status |-> "CONFIRMED", affected_file |-> "news_bot.py",
     source_approval_id |-> ""]

\* the row of lines 1795-1801
InitiativeRow(rows) ==
    [id |-> FreshTaskId(rows), status |-> "PENDING", affected_file |-> "news_bot.py",
     source_approval_id |-> ""]

\* lines 1447-1449: after the loop; of run_agent_initiative the branch of role
\* MASTER, which writes to dev_backlog inside the handler of line 1825.  The
\* insert is made, is not reached (no MASTER agent, no [TITLE] and [DETAIL] in
\* the answer), or raises and is logged; or the tail raises outside a handler
\* (get_agents of line 1668).
EngInitiative ==
    /\ eng_pc = "after"
    /\ \E res \in {"inserted", "skipped", "failed", "raised"} :
          /\ dev_backlog' = IF res = "inserted" /\ "MASTER" \in DOMAIN agents
                            THEN dev_backlog \cup {InitiativeRow(dev_backlog)}
                            ELSE dev_backlog
          /\ eng_pc' = IF res = "raised" THEN "raised" ELSE "done"
    /\ UNCHANGED <<eng_user, eng_word, eng_item, news_n, by_keyword, topic_events,
                   user_events, eng_done, reports, youtube_cache, expert_cache, outbox>>
    /\ UNCHANGED <<caVars, devVars, pending_approvals, agents, govVars, main, sendVars, propVars>>

\* the process is killed (the runner's time limit, a signal) where it stands:
\* its locals are gone, the tables and the mails sent stay
EngCrash ==
    /\ eng_pc \in {"user", "word", "items", "youtube", "expert", "analyse", "hr",
                   "reflect", "send", "flag", "after"}
    /\ eng_pc' = "crashed"
    /\ eng_user' = 1
    /\ eng_word' = 1
    /\ eng_item' = 1
    /\ news_n' = 0
    /\ by_keyword' = <<>>
    /\ topic_events' = <<>>
    /\ user_events' = <<>>
    /\ UNCHANGED <<eng_done, reports, youtube_cache, expert_cache, outbox>>
    /\ UNCHANGED <<caVars, devVars, dbVars, govVars, main, sendVars, propVars>>

-----------------------------------------------------------------------------
(* send_email_report, attempt by attempt *)

\* what one call of _send_gmail does: the server accepts the mail and True is
\* returned; False without a connection (no GMAIL_APP_PASSWORD); False after
\* an error of the SMTP session; or an exception of the lines before its try
GmailOutcomes == {"sent", "no_password", "smtp_error", "raised"}

\* if success: (line 674)
Success(o) == o = "sent"

RECURSIVE Pow2(_)
Pow2(n) == IF n = 0 THEN 1 ELSE 2 * Pow2(n - 1)

\* faulty variant: a sleep after every attempt that did not succeed
SleepAfterAlways(attempt) == TRUE

\* if attempt < 2: (lines 678 and 688)
SleepAfter(attempt) == attempt < SendAttempts - 1

GmailCalls(trace) == SelectSeq(trace, LAMBDA e : e.what = "gmail")

\* lines 666-667: the body of the mail, built outside the loop and any handler
SendBuild ==
    /\ send_pc = "build"
    /\ \E res \in {"ok", "raised"} :
          send_pc' = IF res = "ok" THEN "attempt" ELSE "raised"
    /\ UNCHANGED <<send_to, send_attempt, send_trace, send_ret>>
    /\ UNCHANGED <<eng_pc, eng_user, eng_word, eng_item, news_n, by_keyword,
                   topic_events, user_events, eng_done, reports, youtube_cache,
                   expert_cache, outbox>>
    /\ UNCHANGED <<caVars, devVars, dbVars, govVars, main, propVars>>

\* lines 670-693: one iteration of the loop, with the sleep that ends it, or
\* the return after the loop
SendAttempt ==
    /\ send_pc = "attempt"
    /\ IF send_attempt >= SendAttempts
       THEN /\ send_ret' = "False"
            /\ send_pc' = "returned"
            /\ UNCHANGED <<send_attempt, send_trace, outbox>>
       ELSE \E o \in GmailOutcomes :
               LET call == EngEv("gmail", AttemptNames[send_attempt + 1], o)
                   nap == EngEv("sleep", AttemptNames[Pow2(send_attempt)], "")
               IN  /\ outbox' = IF o = "sent" THEN outbox \cup {send_to} ELSE outbox
                   /\ IF o # "raised" /\ Success(o)
                      THEN /\ send_trace' = Append(send_trace, call)
                           /\ send_ret' = "True"
                           /\ send_pc' = "returned"
                           /\ UNCHANGED send_attempt
                      ELSE IF SleepAfter(send_attempt)
                      THEN /\ send_trace' = send_trace \o <<call, nap>>
                           /\ send_attempt' = send_attempt + 1
                           /\ UNCHANGED <<send_pc, send_ret>>
                      ELSE /\ send_trace' = Append(send_trace, call)
                           /\ send_ret' = "False"
                           /\ send_pc' = "returned"
                           /\ UNCHANGED send_attempt
    /\ UNCHANGED send_to
    /\ UNCHANGED <<eng_pc, eng_user, eng_word, eng_item, news_n, by_keyword,
                   topic_events, user_events, eng_done, reports, youtube_cache,
                   expert_cache>>
    /\ UNCHANGED <<caVars, devVars, dbVars, govVars, main, propVars>>

-----------------------------------------------------------------------------
(* The writers of proposals: run_agent_self_reflection, the roles of *)
(* run_agent_initiative and run_brief_hr_org_pipeline, answer by answer *)

\* tags of the answers, one token each: "TP" [PROPOSAL], "TR" [REASON],
\* "TN" [NEEDS_DEV], "TA" [ADD], "TM" [REMOVE], "TT" [TITLE], "TD" [DETAIL],
\* "AA" [APPROVED_ADD], "AR" [APPROVED_REMOVE], "RJ" [REJECTED],
\* "HC" [HR_COMMENT]; "BAR" is "|", "COL" is ":", "COM" is ",", "NONE" is "없음"
Sentinels == {Degraded, NoData}

\* what call_agent can hand back: the sentinel of a missing agent, the sentinel
\* of a call that failed, or the answer of the service after lines 216-219
AgentReturns(hasAgent, texts) ==
    IF ~hasAgent THEN {NoData}
    ELSE {Degraded} \cup {AgentOutput(text, FALSE) : text \in texts}

RetKind(ret) ==
    IF ret = Degraded THEN "degraded"
    ELSE IF ret = NoData THEN "nodata"
    ELSE IF ret = <<>> THEN "empty"
    ELSE "text"

\* faulty variant: only an empty answer is passed over
SkippedEmptyOnly(ret) == ret = <<>>

\* lines 1749, 1557, 1580: not x or x in ["분석 지연 중", "분석 데이터 없음"]
Skipped(ret) == ret = <<>> \/ ret \in Sentinels

\* re.search(r"\[TAG\](.*?)(?=\[STOP\]|...|$)", text, re.DOTALL).group(1).strip()
\* for a text that holds the tag
Section(text, tag, stops) ==
    LET i     == FindFirst(text, tag)
        later == {j \in (i + 1)..Len(text) : text[j] \in stops}
        j     == IF later = {} THEN Len(text) + 1 ELSE Min(later)
    IN  Strip(SubSeq(text, i + 1, j - 1))

\* (m.group(1).strip() if m else "")
SectionOrEmpty(text, tag, stops) ==
    IF Contains(text, tag) THEN Section(text, tag, stops) ELSE <<>>

\* str.split(sep)
RECURSIVE SplitBy(_, _)
SplitBy(t, sep) ==
    IF ~Contains(t, sep) THEN <<t>>
    ELSE LET i == FindFirst(t, sep)
         IN  <<SubSeq(t, 1, i - 1)>> \o SplitBy(SubSeq(t, i + 1, Len(t)), sep)

\* lines 46-47: re.sub(r'\*+', '', s).strip()
clean_role_name(s) == Strip(SelectSeq(s, LAMBDA tok : tok # "*"))

\* a name as a value of column agent_role: a role is one token
RoleOf(name) ==
    IF name = <<>> THEN "" ELSE IF Len(name) = 1 THEN name[1] ELSE "?"

\* lines 1597-1609: the approved items "name:text" of a section
Approved(raw) ==
    IF raw = <<>> \/ raw = <<"NONE">> THEN <<>>
    ELSE LET items == SplitBy(raw, "BAR")
             pairs == SelectSeq(items, LAMBDA item : Contains(Strip(item), "COL"))
         IN  [k \in 1..Len(pairs) |->
                 LET item == Strip(pairs[k])
                     i    == FindFirst(item, "COL")
                 IN  [role |-> RoleOf(clean_role_name(SubSeq(item, 1, i - 1))),
                      text |-> Strip(SubSeq(item, i + 1, Len(item)))]]

approved_adds(hr) ==
    Approved(SectionOrEmpty(hr, "AA", {"AR", "RJ", "HC"}))

approved_removes(hr) ==
    Approved(SectionOrEmpty(hr, "AR", {"AA", "RJ", "HC"}))

hr_comment(hr) ==
    IF Contains(hr, "HC") THEN Section(hr, "HC", {}) ELSE <<"HRDONE">>

\* line 50
PROTECTED_ROLES == {"BRIEF", "HR", "MASTER", "DEV", "QA"}

\* faulty variant: a role of the table is added again
AddableAny(role, current_roles) == TRUE

\* line 1611
Addable(role, current_roles) == role \notin current_roles

\* faulty variant: the protected roles are not looked at
RemovableUnprotected(role, current_roles) == role \in current_roles

\* lines 1634-1639
Removable(role, current_roles) ==
    role \notin PROTECTED_ROLES /\ role \in current_roles

\* lines 1615-1621 and 1641-1647
OrgContent(head, item, brief, hr) ==
    <<head, item.role>> \o item.text \o <<"BRIEFSAID">> \o brief
        \o <<"HRSAID">> \o hr_comment(hr)

ProposalIds == <<"q1", "q2", "q3", "q4", "q5", "q6", "q7", "q8", "q9">>

FreshProposalId(rows) ==
    ProposalIds[Min({i \in 1..Len(ProposalIds) : \A r \in rows : r.id # ProposalIds[i]})]

\* what a call returned (a sentinel, nothing, a text) and whether a row was
\* written for it: "none", "row", or "raised" when the insert failed
PropEv(fn, role, ret, stored) ==
    [fn |-> fn, role |-> role, ret |-> ret, stored |-> stored]

\* the answers of the service that the model draws from
ReflectTexts ==
    {<<"TP", "fix", "TR", "why", "TN", "YES">>,
     <<"TP", "DELAYED", "TR", "why">>,
     <<"note">>}

IniTexts(role) ==
    IF role = "KW" THEN {<<"TA", "kw", "COM", "kw2", "TM", "old", "TR", "why">>,
                          <<"free">>}
    ELSE IF role = "MASTER" THEN {<<"TT", "title", "TD", "detail">>, <<"TT", "title">>}
    ELSE IF role = "BRIEF" THEN {<<"order">>}
    ELSE {<<"idea">>, <<"*", "DELAYED", "*">>, <<"B", "B", "DELAYED">>}

BriefTexts == {<<"TA", "NEW", "COL", "d", "TM", "PM", "COL", "r">>}

HrTexts ==
    {<<"AA", "NEW", "COL", "d", "BAR", "PM", "COL", "d",
       "AR", "*", "BRIEF", "*", "COL", "r", "BAR", "PM", "COL", "r",
             "BAR", "GONE", "COL", "r",
       "HC", "fine">>,
     <<"AA", "NONE", "AR", "NONE">>,
     <<"AR", "QA", "COL", "r", "AA", "nocolon", "BAR", "SP", "NEW", "COL", "d">>,
     <<"sorry">>}

\* lines 897-899: "YES" in the upper-cased section [NEEDS_DEV]
NeedsDev(ref) == Contains(SectionOrEmpty(ref, "TN", {}), "YES")

\* lines 878-906 for one report with negative feedback: everything is inside
\* try ... except: pass.  The selects raise or find nothing to criticise; else
\* call_agent answers and a row is written when the answer holds [PROPOSAL]
PropReflect ==
    /\ prop_pc = "reflect"
    /\ \E res \in {"select_raised", "no_feedback", "called"} :
          IF res # "called"
              THEN /\ prop_log' = Append(prop_log, PropEv("reflect", "", res, "none"))
                   /\ UNCHANGED pending_approvals
          ELSE \E ref \in AgentReturns(FeedbackRole \in DOMAIN agents, ReflectTexts),
                  ok \in BOOLEAN :
                  IF Contains(ref, "TP")
                      THEN /\ pending_approvals' =
                                 IF ok
                                 THEN pending_approvals \cup
                                      {Proposal(FreshProposalId(pending_approvals),
                                                FeedbackRole,
                                                Section(ref, "TP", {"TR"}),
                                                NeedsDev(ref), "default")}
                                 ELSE pending_approvals
                           /\ prop_log' = Append(prop_log,
                                 PropEv("reflect", FeedbackRole, RetKind(ref),
                                        IF ok THEN "row" ELSE "raised"))
                  ELSE /\ ok
                       /\ UNCHANGED pending_approvals
                       /\ prop_log' = Append(prop_log,
                             PropEv("reflect", FeedbackRole, RetKind(ref), "none"))
    /\ prop_pc' = "role"
    /\ prop_i' = 1
    /\ UNCHANGED <<brief_proposal, hr_decision, dev_backlog, agents>>
    /\ UNCHANGED <<caVars, devVars, govVars, engState, sendVars, main>>

\* the keys of initiative_prompts, lines 1683-1739, in their order
IniRoles == <<"KW", "QA", "DATA", "BA", "BRIEF", "MASTER">>

\* lines 1754-1760: the keywords of a section, split at the commas
Kws(text, tag, stops) ==
    SelectSeq(SectionOrEmpty(text, tag, stops), LAMBDA k : k \notin WS \cup {"COM"})

\* lines 1762-1786: the text registered for role KW
KwContent(proposal) ==
    LET add_kws    == Kws(proposal, "TA", {"TM", "TR"})
        remove_kws == Kws(proposal, "TM", {"TA", "TR"})
        reason     == IF Contains(proposal, "TR") THEN Section(proposal, "TR", {})
                      ELSE <<"KWSELF">>
    IN  IF add_kws = <<>> /\ remove_kws = <<>> THEN strip_markdown(proposal)
        ELSE <<"KWPLAN">> \o add_kws \o <<"SEP">> \o remove_kws \o <<"SEP">>
                 \o strip_markdown(reason)

\* lines 1749-1823: the table a role's answer is written to, "none" when the
\* iteration ends without an insert
IniTable(role, proposal) ==
    IF Skipped(proposal) THEN "none"
    ELSE IF role = "MASTER"
        THEN IF Contains(proposal, "TT") /\ Contains(proposal, "TD")
             THEN "dev_backlog" ELSE "none"
    ELSE "pending_approvals"

\* the row of lines 1764-1770, 1779-1785, 1805-1811, 1815-1821
IniRow(role, proposal, rows) ==
    Proposal(FreshProposalId(rows), role,
             IF role = "KW" THEN KwContent(proposal) ELSE strip_markdown(proposal),
             FALSE, "PENDING")

\* lines 1741-1826: one iteration of the loop over the roles, inside the handler
\* of line 1825; after the last role the pipeline is called (line 1830)
PropRole ==
    /\ prop_pc = "role"
    /\ IF prop_i > Len(IniRoles)
          THEN /\ prop_pc' = "brief"
               /\ prop_i' = 1
               /\ UNCHANGED <<prop_log, pending_approvals, dev_backlog>>
       ELSE LET role == IniRoles[prop_i]
            IN  /\ prop_i' = prop_i + 1
                /\ UNCHANGED prop_pc
                /\ IF role \notin DOMAIN agents
                      THEN UNCHANGED <<prop_log, pending_approvals, dev_backlog>>
                   ELSE \E proposal \in AgentReturns(TRUE, IniTexts(role)),
                           ok \in BOOLEAN :
                          LET tbl == IniTable(role, proposal)
                              put == tbl # "none" /\ ok
                          IN  /\ tbl = "none" => ok
                              /\ pending_approvals' =
                                    IF put /\ tbl = "pending_approvals"
                                    THEN pending_approvals \cup
                                         {IniRow(role, proposal, pending_approvals)}
                                    ELSE pending_approvals
                              /\ dev_backlog' =
                                    IF put /\ tbl = "dev_backlog"
                                    THEN dev_backlog \cup {InitiativeRow(dev_backlog)}
                                    ELSE dev_backlog
                              /\ prop_log' = Append(prop_log,
                                    PropEv("initiative", role, RetKind(proposal),
                                           IF tbl = "none" THEN "none"
                                           ELSE IF ok THEN "row" ELSE "raised"))
    /\ UNCHANGED <<brief_proposal, hr_decision, agents>>
    /\ UNCHANGED <<caVars, devVars, govVars, engState, sendVars, main>>

\* lines 1526-1561: the two agents, the select of the roles, the answer of BRIEF
PropBrief ==
    /\ prop_pc = "brief"
    /\ IF "BRIEF" \notin DOMAIN agents \/ "HR" \notin DOMAIN agents
          THEN /\ prop_pc' = "done"
               /\ UNCHANGED <<brief_proposal, prop_log>>
       ELSE \E res \in {"select_raised", "called"} :
              IF res = "select_raised"
                  THEN /\ prop_pc' = "done"
                       /\ prop_log' = Append(prop_log, PropEv("brief", "BRIEF", res, "none"))
                       /\ UNCHANGED brief_proposal
              ELSE \E ret \in AgentReturns(TRUE, BriefTexts) :
                      /\ brief_proposal' = ret
                      /\ prop_log' = Append(prop_log,
                                            PropEv("brief", "BRIEF", RetKind(ret), "none"))
                      /\ prop_pc' = IF Skipped(ret) THEN "done" ELSE "hr"
    /\ UNCHANGED <<prop_i, hr_decision, dbVars>>
    /\ UNCHANGED <<caVars, devVars, govVars, engState, sendVars, main>>

\* lines 1565-1584: the answer of HR
PropHr ==
    /\ prop_pc = "hr"
    /\ \E ret \in AgentReturns(TRUE, HrTexts) :
          /\ hr_decision' = ret
          /\ prop_log' = Append(prop_log, PropEv("hr", "HR", RetKind(ret), "none"))
          /\ prop_pc' = IF Skipped(ret) THEN "done" ELSE "add"
    /\ prop_i' = 1
    /\ UNCHANGED <<brief_proposal, dbVars>>
    /\ UNCHANGED <<caVars, devVars, govVars, engState, sendVars, main>>

\* lines 1610-1631: one approved addition
PropAdd ==
    /\ prop_pc = "add"
    /\ LET adds == approved_adds(hr_decision)
       IN  IF prop_i > Len(adds)
               THEN /\ prop_pc' = "remove"
                    /\ prop_i' = 1
                    /\ UNCHANGED <<prop_log, pending_approvals>>
           ELSE LET item == adds[prop_i]
                IN  /\ prop_i' = prop_i + 1
                    /\ UNCHANGED prop_pc
                    /\ IF ~Addable(item.role, DOMAIN agents)
                          THEN /\ prop_log' = Append(prop_log,
                                     PropEv("add", item.role, "text", "none"))
                               /\ UNCHANGED pending_approvals
                       ELSE \E ok \in BOOLEAN :
                              /\ pending_approvals' =
                                    IF ok
                                    THEN pending_approvals \cup
                                         {Proposal(FreshProposalId(pending_approvals),
                                                   item.role,
                                                   OrgContent("ADD_AGENT", item,
                                                       brief_proposal, hr_decision),
                                                   FALSE, "PENDING")}
                                    ELSE pending_approvals
                              /\ prop_log' = Append(prop_log,
                                    PropEv("add", item.role, "text",
                                           IF ok THEN "row" ELSE "raised"))
    /\ UNCHANGED <<brief_proposal, hr_decision, dev_backlog, agents>>
    /\ UNCHANGED <<caVars, devVars, govVars, engState, sendVars, main>>

\* lines 1633-1657: one approved removal
PropRemove ==
    /\ prop_pc = "remove"
    /\ LET removes == approved_removes(hr_decision)
       IN  IF prop_i > Len(removes)
               THEN /\ prop_pc' = "done"
                    /\ UNCHANGED <<prop_i, prop_log, pending_approvals>>
           ELSE LET item == removes[prop_i]
                IN  /\ prop_i' = prop_i + 1
                    /\ UNCHANGED prop_pc
                    /\ IF ~Removable(item.role, DOMAIN agents)
                          THEN /\ prop_log' = Append(prop_log,
                                     PropEv("remove", item.role, "text", "none"))
                               /\ UNCHANGED pending_approvals
                       ELSE \E ok \in BOOLEAN :
                              /\ pending_approvals' =
                                    IF ok
                                    THEN pending_approvals \cup
                                         {Proposal(FreshProposalId(pending_approvals),
                                                   item.role,
                                                   OrgContent("REMOVE_AGENT", item,
                                                       brief_proposal, hr_decision),
                                                   FALSE, "PENDING")}
                                    ELSE pending_approvals
                              /\ prop_log' = Append(prop_log,
                                    PropEv("remove", item.role, "text",
                                           IF ok THEN "row" ELSE "raised"))
    /\ UNCHANGED <<brief_proposal, hr_decision, dev_backlog, agents>>
    /\ UNCHANGED <<caVars, devVars, govVars, engState, sendVars, main>>

-----------------------------------------------------------------------------
(* The entry point *)

Subsystems == {"run_self_evolution", "manage_deadline_approvals", "run_industry_monitor",
               "run_autonomous_engine", "sync_data_to_github"}

ModeArgs == {"", "dev", "DEV", "GOVERNANCE", "INDUSTRY", "BRIEFING", "briefing", "other"}
\* CRON_TYPE of the environment; unset, os.environ.get answers "BRIEFING"
CronTypes == {"BRIEFING", "GOVERNANCE", "INDUSTRY", "DEV", "dev"}

Briefing == <<"manage_deadline_approvals", "run_autonomous_engine", "sync_data_to_github">>

\* faulty variant: the engine is started whether or not an id was given
PlanNoIdCheck(mode, id, cron) ==
    IF mode # ""
    THEN CASE Upper(mode) = "DEV" -> [todo |-> <<"run_self_evolution">>, exit |-> "0"]
           [] Upper(mode) = "GOVERNANCE" ->
                 [todo |-> <<"manage_deadline_approvals">>, exit |-> "0"]
           [] Upper(mode) = "INDUSTRY" -> [todo |-> <<"run_industry_monitor">>, exit |-> "0"]
           [] Upper(mode) = "BRIEFING" -> [todo |-> Briefing, exit |-> "0"]
           [] OTHER -> [todo |-> <<>>, exit |-> "1"]
    ELSE CASE Upper(cron) = "GOVERNANCE" ->
                 [todo |-> <<"manage_deadline_approvals">>, exit |-> "0"]
           [] Upper(cron) = "INDUSTRY" -> [todo |-> <<"run_industry_monitor">>, exit |-> "0"]
           [] OTHER -> [todo |-> Briefing, exit |-> "0"]

\* lines 1853-1900: what the process calls, in order, and the code it exits
\* with when no call raises; id is args.backlog_id or BACKLOG_ID
Plan(mode, id, cron) ==
    IF mode # ""
    THEN CASE Upper(mode) = "DEV" ->
                 IF id = "" THEN [todo |-> <<>>, exit |-> "1"]
                 ELSE [todo |-> <<"run_self_evolution">>, exit |-> "0"]
           [] Upper(mode) = "GOVERNANCE" ->
                 [todo |-> <<"manage_deadline_approvals">>, exit |-> "0"]
           [] Upper(mode) = "INDUSTRY" -> [todo |-> <<"run_industry_monitor">>, exit |-> "0"]
           [] Upper(mode) = "BRIEFING" -> [todo |-> Briefing, exit |-> "0"]
           [] OTHER -> [todo |-> <<>>, exit |-> "1"]
    ELSE CASE Upper(cron) = "GOVERNANCE" ->
                 [todo |-> <<"manage_deadline_approvals">>, exit |-> "0"]
           [] Upper(cron) = "INDUSTRY" -> [todo |-> <<"run_industry_monitor">>, exit |-> "0"]
           [] OTHER -> [todo |-> Briefing, exit |-> "0"]

\* args.backlog_id or os.environ.get("BACKLOG_ID", "")
BacklogIdOf(m) == IF m.backlog_id # "" THEN m.backlog_id ELSE m.env_backlog_id

MainIdle ==
    [pc |-> "off", mode |-> "", backlog_id |-> "", env_backlog_id |-> "",
     cron_type |-> "BRIEFING", todo |-> <<>>, calls |-> <<>>, exit |-> ""]

\* the process is started with some command line and environment
MainStart ==
    /\ main.pc = "off"
    /\ \E mode \in ModeArgs, id, envId \in {"", "t1"}, cron \in CronTypes :
          LET m == [MainIdle EXCEPT !.mode = mode, !.backlog_id = id,
                                    !.env_backlog_id = envId, !.cron_type = cron]
          IN  main' = [m EXCEPT !.pc = "running",
                                !.todo = Plan(mode, BacklogIdOf(m), cron).todo]
    /\ UNCHANGED <<caVars, devVars, dbVars, govVars, engVars>>

\* the next call of the branch taken: it returns, or it raises and the
\* interpreter ends the process with code 1
MainCall ==
    /\ main.pc = "running"
    /\ main.todo # <<>>
    /\ \E res \in {"returned", "raised"} :
          main' = IF res = "returned"
                  THEN [main EXCEPT !.calls = Append(@, Head(main.todo)),
                                    !.todo = Tail(@)]
                  ELSE [main EXCEPT !.calls = Append(@, Head(main.todo)),
                                    !.todo = <<>>, !.pc = "exited", !.exit = "1"]
    /\ UNCHANGED <<caVars, devVars, dbVars, govVars, engVars>>

\* sys.exit, or the end of the file
MainExit ==
    /\ main.pc = "running"
    /\ main.todo = <<>>
    /\ main' = [main EXCEPT !.pc = "exited",
                            !.exit = Plan(main.mode, BacklogIdOf(main), main.cron_type).exit]
    /\ UNCHANGED <<caVars, devVars, dbVars, govVars, engVars>>

-----------------------------------------------------------------------------
(* Initial states and specifications *)

CaIdle ==
    /\ ca_pc = "idle"
    /\ ca_fn = "call_agent"
    /\ ca_caller = "harness"
    /\ ca_force = FALSE
    /\ ca_attempt = 0
    /\ ca_trace = <<>>
    /\ ca_ret = NoRet
    /\ cost_log = 0
    /\ action_logs = {}

DevOff ==
    /\ dev_pc = "off"
    /\ backlog_id = ""
    /\ task = NoTask
    /\ cur_code = NoCode
    /\ file_path = ""
    /\ new_code = <<>>
    /\ code_backups = {}
    /\ local_baks = {}
    /\ dev_events = <<>>
    /\ runs = 0

GovOff ==
    /\ gov_pc = "off"
    /\ now = <<9, 0>>
    /\ pending = <<>>
    /\ gov_i = 1
    /\ gov_events = <<>>

PropOff ==
    /\ prop_pc = "off"
    /\ prop_i = 1
    /\ brief_proposal = <<>>
    /\ hr_decision = <<>>
    /\ prop_log = <<>>

SendOff ==
    /\ send_pc = "off"
    /\ send_to = "u1"
    /\ send_attempt = 0
    /\ send_trace = <<>>
    /\ send_ret = "none"

EngOff ==
    /\ SendOff /\ PropOff
    /\ eng_pc = "off"
    /\ eng_user = 1
    /\ eng_word = 1
    /\ eng_item = 1
    /\ news_n = 0
    /\ by_keyword = <<>>
    /\ topic_events = <<>>
    /\ user_events = <<>>
    /\ eng_done = <<>>
    /\ reports = [u \in UserIds |-> NoReport]
    /\ youtube_cache = [k \in Keywords |-> NoRow]
    /\ expert_cache = [k \in Keywords |-> NoRow]
    /\ outbox = {}

MainOff == main = MainIdle

CleanCheckout(other) ==
    LET files == [p \in Paths |-> IF IsPrimary(p) THEN PrimaryOrig ELSE other]
    IN  /\ disk = files
        /\ git = [index |-> files, head |-> files, remote |-> files]

\* the invocation layer alone, called once with any arguments
InitInvoke ==
    /\ CaIdle /\ DevOff /\ GovOff /\ EngOff /\ MainOff
    /\ CleanCheckout(OtherOrig)
    /\ dev_backlog = {}
    /\ pending_approvals = {}
    /\ agents = [r \in {"DEV"} |-> "i0"]

HarnessCall ==
    /\ ca_pc = "idle"
    /\ \E fn \in {"call_agent", "call_agent_json"}, hasAgent \in BOOLEAN,
          force \in BOOLEAN :
          /\ fn = "call_agent_json" => ~force
          /\ CaEnter(fn, "harness", hasAgent, force)
    /\ UNCHANGED <<devVars, dbVars, govVars, engVars, main>>

HarnessCallAgent ==
    /\ ca_caller = "harness"
    /\ CallAgentAttempt
    /\ UNCHANGED <<devVars, dbVars, govVars, engVars, main>>

HarnessCallAgentJson ==
    /\ ca_caller = "harness"
    /\ CallAgentJsonAttempt
    /\ UNCHANGED <<devVars, dbVars, govVars, engVars, main>>

NextInvoke ==
    \/ HarnessCall
    \/ HarnessCallAgent
    \/ HarnessCallAgentJson

SpecInvoke == InitInvoke /\ [][NextInvoke]_vars

\* the loop of either function runs on its own: it waits for nothing but the
\* service's answer and its own sleeps, so an iteration that can run does run
SpecInvokeFair ==
    SpecInvoke /\ WF_vars(HarnessCallAgent) /\ WF_vars(HarnessCallAgentJson)

\* the deployment engine: one task, in any status, for either artifact
DevInitStatuses == {"CONFIRMED", "developing", "PENDING"}

InitDev ==
    /\ CaIdle /\ DevOff /\ GovOff /\ EngOff /\ MainOff
    /\ \E other \in {OtherOrig, <<>>} : CleanCheckout(other)
    /\ \E st \in DevInitStatuses, path \in Paths :
          dev_backlog = {[id |-> "t1", status |-> st, affected_file |-> path,
                          source_approval_id |-> ""]}
    /\ pending_approvals = {}
    /\ \E roles \in {{"DEV"}, {}} : agents = [r \in roles |-> "i0"]

DevCallAgent ==
    /\ dev_pc = "generating"
    /\ ca_caller = "dev"
    /\ CallAgentAttempt
    /\ UNCHANGED <<devVars, dbVars, govVars, engVars, main>>

NextDev ==
    \/ DevInvoke
    \/ DevStart
    \/ DevSelect
    \/ DevRead
    \/ DevBackup
    \/ DevBackupNotify
    \/ DevBackupStatus
    \/ DevLocalCopy
    \/ DevGenerate
    \/ DevCallAgent
    \/ DevExtract
    \/ DevValidate
    \/ DevRollback
    \/ DevValidationNotify
    \/ DevValidationStatus
    \/ DevWrite
    \/ DevGitConfig
    \/ DevGitAdd
    \/ DevGitCommit
    \/ DevGitPush
    \/ DevDeployedStatus
    \/ DevDeployedNotify
    \/ DevExcNotify
    \/ DevExcStatus
    \/ DevExcRestore

SpecDev == InitDev /\ [][NextDev]_vars

\* a task ready to deploy to news_bot.py, and the engine started on it again
\* after its invocation ended
InitDevAgain ==
    /\ CaIdle /\ DevOff /\ GovOff /\ EngOff /\ MainOff
    /\ CleanCheckout(OtherOrig)
    /\ \E st \in {"CONFIRMED", "developing"} :
          dev_backlog = {[id |-> "t1", status |-> st, affected_file |-> "news_bot.py",
                          source_approval_id |-> ""]}
    /\ pending_approvals = {}
    /\ agents = [r \in {"DEV"} |-> "i0"]

NextDevAgain == NextDev \/ DevAgain

SpecDevAgain == InitDevAgain /\ [][NextDevAgain]_vars

\* governance: two proposals, the datastore as earlier runs left it
Roles == {"PM", "BA"}

InitGov ==
    /\ CaIdle /\ DevOff /\ GovOff /\ EngOff /\ MainOff
    /\ CleanCheckout(OtherOrig)
    /\ dev_backlog = {}
    /\ \E nd1, nd2 \in BOOLEAN, st1, st2 \in {"PENDING", "REJECTED"}, r2 \in Roles :
          pending_approvals = { Proposal("p1", "PM", "i1", nd1, st1),
                                Proposal("p2", r2, "i2", nd2, st2) }
    /\ agents = [r \in Roles \cup {"DEV"} |-> "i0"]

NextGov ==
    \/ GovInvoke
    \/ GovSelect
    \/ GovInstruction
    \/ GovApprove
    \/ GovFollowup
    \/ GovInsert

SpecGov == InitGov /\ [][NextGov]_vars

\* a pass that has started runs to its end: the loop waits for nothing but the
\* datastore's answers.  When the process is started is left open.
GovStep ==
    \/ GovSelect
    \/ GovInstruction
    \/ GovApprove
    \/ GovFollowup
    \/ GovInsert

SpecGovFair == SpecGov /\ WF_vars(GovStep)

\* the dispatcher: the datastore as earlier processes of the day left it
InitEng ==
    /\ CaIdle /\ DevOff /\ GovOff /\ MainOff /\ SendOff /\ PropOff
    /\ CleanCheckout(OtherOrig)
    /\ dev_backlog = {}
    /\ pending_approvals = {}
    /\ \E missing \in {{}, {"BA"}} :
          agents = [r \in (EngRoles \cup {"MASTER"}) \ missing |-> "i0"]
    /\ eng_pc = "off"
    /\ eng_user = 1
    /\ eng_word = 1
    /\ eng_item = 1
    /\ news_n = 0
    /\ by_keyword = <<>>
    /\ topic_events = <<>>
    /\ user_events = <<>>
    /\ eng_done = <<>>
    /\ \E r1 \in {NoReport, ReportRow(OldContent, FALSE), ReportRow(OldContent, TRUE)} :
          /\ reports = [u \in UserIds |-> IF u = "u1" THEN r1 ELSE NoReport]
          /\ outbox \in IF r1.email_sent THEN {{"u1"}}
                         ELSE IF r1.stored THEN {{}, {"u1"}} ELSE {{}}
    /\ \E y \in {NoRow, "earlier"} :
          youtube_cache = [k \in Keywords |-> IF k = "k1" THEN y ELSE NoRow]
    /\ expert_cache = [k \in Keywords |-> NoRow]

NextEng ==
    \/ EngInvoke
    \/ EngUser
    \/ EngCollect
    \/ EngItem
    \/ EngYoutube
    \/ EngExpert
    \/ EngAnalyse
    \/ EngUpsert
    \/ EngReflect
    \/ EngSend
    \/ EngFlag
    \/ EngInitiative
    \/ EngCrash

SpecEng == InitEng /\ [][NextEng]_vars

\* one activation of send_email_report for the report of a user
InitSend ==
    /\ CaIdle /\ DevOff /\ GovOff /\ MainOff
    /\ CleanCheckout(OtherOrig)
    /\ dev_backlog = {}
    /\ pending_approvals = {}
    /\ agents = [r \in EngRoles |-> "i0"]
    /\ eng_pc = "send"
    /\ eng_user = 1
    /\ eng_word = 1
    /\ eng_item = 1
    /\ news_n = 0
    /\ by_keyword = <<>>
    /\ topic_events = <<>>
    /\ user_events = <<>>
    /\ eng_done = <<>>
    /\ reports = [u \in UserIds |-> ReportRow(OldContent, FALSE)]
    /\ youtube_cache = [k \in Keywords |-> NoRow]
    /\ expert_cache = [k \in Keywords |-> NoRow]
    /\ outbox = {}
    /\ send_pc = "build"
    /\ send_to \in UserIds
    /\ send_attempt = 0
    /\ send_trace = <<>>
    /\ send_ret = "none"
    /\ PropOff

\* the writers of proposals alone: the self-critique of a report, then the tail
\* of the run; the tables hold no proposal and no task yet
PropAgents == {"KW", "BA", "BRIEF", "HR", "MASTER", "PM"}

InitProp ==
    /\ CaIdle /\ DevOff /\ GovOff /\ MainOff /\ SendOff
    /\ CleanCheckout(OtherOrig)
    /\ dev_backlog = {}
    /\ pending_approvals = {}
    /\ \E missing \in {{}, {"PM"}, {"HR"}} :
          agents = [r \in PropAgents \ missing |-> "i0"]
    /\ eng_pc = "after"
    /\ eng_user = 1
    /\ eng_word = 1
    /\ eng_item = 1
    /\ news_n = 0
    /\ by_keyword = <<>>
    /\ topic_events = <<>>
    /\ user_events = <<>>
    /\ eng_done = <<>>
    /\ reports = [u \in UserIds |-> NoReport]
    /\ youtube_cache = [k \in Keywords |-> NoRow]
    /\ expert_cache = [k \in Keywords |-> NoRow]
    /\ outbox = {}
    /\ prop_pc = "reflect"
    /\ prop_i = 1
    /\ brief_proposal = <<>>
    /\ hr_decision = <<>>
    /\ prop_log = <<>>

NextProp == PropReflect \/ PropRole \/ PropBrief \/ PropHr \/ PropAdd \/ PropRemove

SpecProp == InitProp /\ [][NextProp]_vars

NextSend ==
    \/ SendBuild
    \/ SendAttempt

SpecSend == InitSend /\ [][NextSend]_vars

\* the entry point, started once
InitMain ==
    /\ CaIdle /\ DevOff /\ GovOff /\ EngOff /\ MainOff
    /\ CleanCheckout(OtherOrig)
    /\ dev_backlog = {}
    /\ pending_approvals = {}
    /\ agents = [r \in {"DEV"} |-> "i0"]

NextMain ==
    \/ MainStart
    \/ MainCall
    \/ MainExit

SpecMain == InitMain /\ [][NextMain]_vars

\* The backlog through a day: one governance pass, then a briefing process
\* whose users all have their report of the day already (so that the
\* dispatcher goes straight to the initiative), then one invocation of the
\* deployment engine on a task an operator confirmed.
InitBacklog ==
    /\ CaIdle /\ DevOff /\ GovOff /\ MainOff /\ SendOff /\ PropOff
    /\ CleanCheckout(OtherOrig)
    /\ dev_backlog = {[id |-> "t1", status |-> "CONFIRMED", affected_file |-> "news_bot.py",
                       source_approval_id |-> ""]}
    /\ \E nd \in BOOLEAN :
          pending_approvals = { Proposal("p1", "PM", "i1", nd, "PENDING") }
    /\ agents = [r \in Roles \cup {"DEV", "MASTER"} |-> "i0"]
    /\ eng_pc = "off"
    /\ eng_user = 1
    /\ eng_word = 1
    /\ eng_item = 1
    /\ news_n = 0
    /\ by_keyword = <<>>
    /\ topic_events = <<>>
    /\ user_events = <<>>
    /\ eng_done = <<>>
    /\ reports = [u \in UserIds |-> ReportRow(OldContent, TRUE)]
    /\ outbox = UserIds
    /\ youtube_cache = [k \in Keywords |-> NoRow]
    /\ expert_cache = [k \in Keywords |-> NoRow]

BacklogGov ==
    /\ gov_pc # "done"
    /\ eng_pc = "off"
    /\ dev_pc = "off"
    /\ NextGov

BacklogEng ==
    /\ gov_pc = "done"
    /\ dev_pc = "off"
    /\ (EngInvoke \/ EngUser \/ EngInitiative)

BacklogDev ==
    /\ eng_pc \in {"done", "raised"}
    /\ dev_pc \notin {"done", "raised"}
    /\ NextDev

NextBacklog ==
    \/ BacklogGov
    \/ BacklogEng
    \/ BacklogDev

SpecBacklog == InitBacklog /\ [][NextBacklog]_vars

\* the same processes on an empty backlog: every task there is was created by
\* the program, and the deployment engine is started with the id of any of them
InitOwn ==
    /\ CaIdle /\ DevOff /\ GovOff /\ MainOff /\ SendOff /\ PropOff
    /\ CleanCheckout(OtherOrig)
    /\ dev_backlog = {}
    /\ \E nd \in BOOLEAN :
          pending_approvals = { Proposal("p1", "PM", "i1", nd, "PENDING") }
    /\ agents = [r \in Roles \cup {"DEV", "MASTER"} |-> "i0"]
    /\ eng_pc = "off"
    /\ eng_user = 1
    /\ eng_word = 1
    /\ eng_item = 1
    /\ news_n = 0
    /\ by_keyword = <<>>
    /\ topic_events = <<>>
    /\ user_events = <<>>
    /\ eng_done = <<>>
    /\ reports = [u \in UserIds |-> ReportRow(OldContent, TRUE)]
    /\ outbox = UserIds
    /\ youtube_cache = [k \in Keywords |-> NoRow]
    /\ expert_cache = [k \in Keywords |-> NoRow]

\* python news_bot.py --mode dev --backlog-id <id of a task of the backlog>
DevInvokeOwn ==
    /\ runs <= MaxRuns
    /\ \E id \in {row.id : row \in dev_backlog} : DevEnter(id)

OwnDev ==
    /\ eng_pc \in {"done", "raised"}
    /\ \/ DevInvokeOwn
       \/ dev_pc \notin {"off", "done", "raised"} /\ NextDev

NextOwn ==
    \/ BacklogGov
    \/ BacklogEng
    \/ OwnDev

SpecOwn == InitOwn /\ [][NextOwn]_vars

-----------------------------------------------------------------------------
(* Claims about the invocation layer, under SpecInvoke / SpecInvokeFair *)

CallEvents == SelectSeq(ca_trace, LAMBDA e : e.ev = "call")
CallOuts   == [i \in 1..Len(CallEvents) |-> CallEvents[i].out]
IsLastEvent(i) == i = Len(ca_trace)

\* C6: whatever the service answers, call_agent and call_agent_json make at
\* most 3 service calls, never raise, and every activation that has started
\* ends by returning a value.
C6_RetryBound ==
    /\ [](/\ CaCalls <= 3
          /\ ca_pc # "raised"
          /\ (ca_pc = "returned" => ca_ret.kind \in {"text", "json"}))
    /\ ((ca_pc = "attempt") ~> (ca_pc = "returned"))

\* an activation that used its three calls on retryable errors and a failed
\* parse, and returned
C6_Witness ==
    /\ ca_pc = "returned"
    /\ ca_fn = "call_agent_json"
    /\ CallOuts = <<"raise429", "parsefail", "raise429">>

\* C7: when call_agent's first two calls fail with a retryable error and the
\* third succeeds, the value returned is the output made from the third answer,
\* not the placeholder, and exactly two sleeps happened, both before the third
\* call, the second longer than the first.
C7_ThirdAttemptSucceeds ==
    (ca_fn = "call_agent" /\ ca_pc = "returned"
        /\ CallOuts = <<"raise429", "raise429", "ok">>)
    => /\ ca_ret = TextRet(AgentOutput(CallEvents[3].text, ca_force))
       /\ ca_ret.text # Degraded
       /\ Len(CaSleeps) = 2
       /\ [i \in 1..Len(ca_trace) |-> ca_trace[i].ev]
              = <<"call", "sleep", "call", "sleep", "call">>
       /\ CaSleeps[2].secs > CaSleeps[1].secs

C7_Witness ==
    /\ ca_fn = "call_agent" /\ ca_pc = "returned"
    /\ CallOuts = <<"raise429", "raise429", "ok">>
    /\ CallEvents[3].text = <<"*", "a", "*", "NL", "LBL", "NL", "b">>
    /\ ca_ret.text = <<"a", "NL", "b">>

\* C8: in call_agent an error without the retryable signature ends the
\* activation at once with the placeholder (it is the last thing the activation
\* did: no call and no sleep follows it); three retryable errors in a row end it
\* with the same placeholder after exactly 3 calls; nothing is raised.
C8_DegradeOnError ==
    ca_fn = "call_agent" =>
        /\ \A i \in 1..Len(ca_trace) :
              (ca_trace[i].ev = "call" /\ ca_trace[i].out \in {"raise", "textnone"})
              => /\ IsLastEvent(i)
                 /\ ca_pc = "returned"
                 /\ ca_ret = TextRet(Degraded)
        /\ (Len(CallOuts) >= 3 /\ \A i \in 1..3 : CallOuts[i] = "raise429")
              => /\ CaCalls = 3
                 /\ ca_pc = "returned"
                 /\ ca_ret = TextRet(Degraded)
        /\ ca_pc # "raised"

\* a non-retryable error on the second attempt, after one backoff
C8_Witness ==
    /\ ca_fn = "call_agent" /\ ca_pc = "returned"
    /\ CallOuts = <<"raise429", "raise">>
    /\ Len(CaSleeps) = 1

\* C9: in call_agent_json a parse failure on the first or second call leaves
\* the loop running (another call follows); a parse failure on the third call
\* returns the structure whose summary is the first line of the raw text,
\* cleaned, and whose points and deep are empty; parse failures and retryable
\* errors share the three calls.
C9_ParseFailure ==
    ca_fn = "call_agent_json" =>
        /\ \A k \in 1..Len(CallOuts) :
              (CallOuts[k] = "parsefail" /\ k < 3 /\ k = Len(CallOuts))
              => ca_pc = "attempt"
        /\ (Len(CallOuts) = 3 /\ CallOuts[3] = "parsefail")
              => /\ ca_pc = "returned"
                 /\ ca_ret.kind = "json"
                 /\ ca_ret.text =
                        strip_markdown(FirstLine(Strip(CallEvents[3].text)))
                 /\ ca_ret.points = <<>>
                 /\ ca_ret.deep = <<>>
        /\ Cardinality({k \in 1..Len(CallOuts) :
                            CallOuts[k] \in {"parsefail", "raise429"}}) <= 3
        /\ (ca_pc = "attempt" => CaCalls < 3)

\* retryable error, then two parse failures of a two-line answer
C9_Witness ==
    /\ ca_fn = "call_agent_json" /\ ca_pc = "returned"
    /\ CallOuts = <<"raise429", "parsefail", "parsefail">>
    /\ CallEvents[3].text = <<"*", "a", "NL", "{", "j">>
    /\ ca_ret = JsonRet(<<"a">>, <<>>, <<>>)

-----------------------------------------------------------------------------
(* Claims about run_self_evolution, under SpecDev *)

\* the status of the task the invocation works on, as the datastore holds it
TaskStatus ==
    IF \E t \in dev_backlog : t.id = task.id
        THEN (CHOOSE t \in dev_backlog : t.id = task.id).status
        ELSE ""

Finished == dev_pc \in {"done", "raised"}

BackupStored ==
    \E b \in code_backups :
        b.task_id = task.id /\ b.file_path = file_path /\ b.code = cur_code

\* the candidate fails the checks: it does not compile, or the file is
\* news_bot.py and a required signature is missing or it has fewer than 300 lines
CandidateFails ==
    \/ ~CompileOK(new_code)
    \/ /\ file_path = "news_bot.py"
       /\ \/ \E sig \in {"ENG", "INI", "MAIN"} : ~Contains(new_code, sig)
          \/ LineCount(new_code) < 300

ValidationRan == TriedAny("validate")

C2_BackupBeforeMutate ==
    /\ TriedAny("write") => BackupStored
    /\ (\E p \in Paths : disk[p] # git.remote[p] /\ git.remote = git.head)
          => BackupStored

\* the artifact was written, and left cut short, with nothing in code_backups
C2_Witness ==
    /\ Finished
    /\ code_backups = {}
    /\ Did("backup", task.id, "raised")
    /\ Did("write", "restore", "raised")
    /\ disk[file_path] = <<>>
    /\ cur_code # <<>>

C4_ArtifactAlwaysValid ==
    cur_code # NoCode
    => \/ disk[file_path] = cur_code
       \/ PassesValidation(file_path, disk[file_path])

\* news_bot.py left empty by a write that failed after the file was opened
C4_Witness ==
    /\ Finished
    /\ file_path = "news_bot.py"
    /\ Did("write", "candidate", "raised")
    /\ disk[file_path] = <<>>
    /\ ~PassesValidation(file_path, disk[file_path])

CandidateCommitted == Did("git", "commit", "ok")
CandidatePushed    == Did("git", "push", "ok")

\* C5: an invocation that read the artifact and has finished either (a) left the
\* candidate in the artifact, committed and pushed, with the success status, or
\* (b) left the pre-image in the artifact with the candidate neither committed
\* nor pushed; a task that ended in DEPLOY_FAILED has no commit and no push.
C5_AtomicDeploy ==
    (Finished /\ cur_code # NoCode)
    => /\ \/ /\ disk[file_path] = new_code
             /\ CandidateCommitted /\ CandidatePushed
             /\ git.head[file_path] = new_code /\ git.remote[file_path] = new_code
             /\ TaskStatus = SuccessStatus
          \/ /\ disk[file_path] = cur_code
             /\ ~CandidateCommitted /\ ~CandidatePushed
       /\ TaskStatus = "DEPLOY_FAILED" => ~CandidateCommitted /\ ~CandidatePushed

\* the push failed after the commit: the task is DEPLOY_FAILED, the artifact is
\* back to the pre-image and the candidate is in the local history
C5_Witness ==
    /\ dev_pc = "done"
    /\ TaskStatus = "DEPLOY_FAILED"
    /\ Did("git", "commit", "ok") /\ Did("git", "push", "raised")
    /\ disk[file_path] = cur_code
    /\ git.head[file_path] = new_code
    /\ new_code # cur_code

-----------------------------------------------------------------------------
(* Claims about manage_deadline_approvals, under SpecGov *)

TasksOf(id) == {t \in dev_backlog : t.source_approval_id = id}

PassesRun ==
    Len(SelectSeq(gov_events, LAMBDA e : e.ev = "pass" /\ e.res = "run"))

\* C10: after any number of governance passes, in any order and with any
\* failures, no proposal id is the source_approval_id of two backlog tasks.
C10_Dedup ==
    \A p \in pending_approvals : Cardinality(TasksOf(p.id)) <= 1

\* two passes ran past the cutoff, both proposals asked for development and
\* each got its task once
C10_Witness ==
    /\ gov_pc = "done"
    /\ PassesRun = 2
    /\ \A p \in pending_approvals :
          /\ p.needs_dev /\ p.status = "APPROVED"
          /\ Cardinality(TasksOf(p.id)) = 1

GovDid(ev, id, res) ==
    \E i \in 1..Len(gov_events) : gov_events[i] = GovEv(ev, id, res)

ProposalStatus(id) ==
    IF \E p \in pending_approvals : p.id = id
        THEN (CHOOSE p \in pending_approvals : p.id = id).status
        ELSE ""

\* the events of the pass in progress, or of the last one
LastPassIdx == Max({0} \cup {i \in 1..Len(gov_events) : gov_events[i].ev = "pass"})
PassEvents  == SubSeq(gov_events, LastPassIdx + 1, Len(gov_events))
PassEnded   == gov_pc = "done" /\ LastPassIdx > 0
PassClean   == \A i \in 1..Len(PassEvents) : PassEvents[i].res # "raised"
HadTaskBefore(id) ==
    \E i \in 1..LastPassIdx : gov_events[i] = GovEv("insert", id, "ok")
InsertedInPass ==
    {i \in 1..Len(PassEvents) : PassEvents[i].ev = "insert" /\ PassEvents[i].res = "ok"}

\* C11: once governance has finished, every proposal it approved that asks for
\* a follow-up has exactly one backlog task, also when the insert failed in the
\* pass that approved it and governance ran again.
C11_FollowupNotLost ==
    gov_pc = "done" =>
        \A p \in pending_approvals :
            (p.needs_dev /\ GovDid("approve", p.id, "ok"))
            => Cardinality(TasksOf(p.id)) = 1

\* the insert failed after the approval, a second pass ran, and no task exists
C11_Witness ==
    /\ gov_pc = "done"
    /\ PassesRun = 2
    /\ PassEvents = <<GovEv("select", "", "ok")>>
    /\ GovDid("approve", "p1", "ok") /\ GovDid("insert", "p1", "raised")
    /\ ProposalStatus("p1") = "APPROVED"
    /\ TasksOf("p1") = {}

C14_OnlyApprovedMutates ==
    gov_pc \in {"off", "done"} =>
        \A p \in pending_approvals :
            agents[p.agent_role] = p.proposed_instruction => p.status = "APPROVED"

\* the status update raised after the instruction was overwritten
C14_Witness ==
    /\ gov_pc = "done"
    /\ GovDid("instruction", "p1", "ok") /\ GovDid("approve", "p1", "raised")
    /\ ProposalStatus("p1") = "PENDING"
    /\ agents["PM"] = "i1"

LastInstructionIdx ==
    Max({0} \cup {i \in 1..Len(gov_events) :
                     gov_events[i].ev = "instruction" /\ gov_events[i].res = "ok"})

TimesApplied(id) ==
    Cardinality({i \in 1..Len(gov_events) : gov_events[i] = GovEv("instruction", id, "ok")})

\* C15: writing a proposal's instruction to its role a second time changes
\* nothing: the table after two writes equals the table after one, and after
\* the proposal was the last one applied, however often, the role has its
\* proposed_instruction.
C15_Idempotent ==
    \A p \in pending_approvals :
        LET once == SetInstruction(agents, p.agent_role, p.proposed_instruction)
        IN  /\ SetInstruction(once, p.agent_role, p.proposed_instruction) = once
            /\ (LastInstructionIdx > 0 /\ gov_events[LastInstructionIdx].id = p.id)
                  => /\ agents[p.agent_role] = p.proposed_instruction
                     /\ agents = once

\* the same proposal was applied in two passes
C15_Witness ==
    /\ TimesApplied("p1") = 2
    /\ gov_events[LastInstructionIdx].id = "p1"
    /\ agents["PM"] = "i1"

-----------------------------------------------------------------------------
(* More claims about run_self_evolution, under SpecDev and SpecDevAgain *)

InProgress == dev_pc \notin {"off", "done", "raised"}

\* the status allows a deployment, as the spec words it
StatusReady(st) == st \in {"CONFIRMED", "DEVELOPING", "confirmed", "developing"}

\* the invocation did something beyond selecting its task
Worked ==
    \/ TriedAny("read") \/ TriedAny("backup") \/ TriedAny("local_copy")
    \/ TriedAny("get_agents") \/ TriedAny("generate") \/ TriedAny("validate")
    \/ TriedAny("write") \/ TriedAny("git") \/ TriedAny("status")

\* C16: an invocation with an empty id, an unknown id or a task whose status is
\* neither CONFIRMED nor DEVELOPING changes nothing: no step of it changes the
\* artifact, the backups, the repository or the backlog, it never calls the
\* service, and it ends after the selection.
C16_NoOpUnlessDeployable ==
    /\ [][(InProgress /\ (backlog_id = "" \/ task = NoTask \/ ~StatusReady(task.status)))
             => /\ UNCHANGED <<disk, code_backups, local_baks, git, dev_backlog>>
                /\ ca_pc' = "idle" /\ cost_log' = cost_log]_vars
    /\ []((task # NoTask /\ ~StatusReady(task.status)) => (~InProgress /\ ~Worked))
    /\ []((backlog_id \notin {t.id : t \in dev_backlog}) => ~Worked)

\* the task exists but is PENDING: the invocation ended at the status check
C16_Witness ==
    /\ dev_pc = "done"
    /\ dev_events = <<DevEv("select", "t1", "skip")>>
    /\ TaskStatus = "PENDING"
    /\ code_backups = {} /\ local_baks = {}
    /\ disk = git.remote /\ git.head = git.remote

StatusWritten ==
    \E i \in 1..Len(dev_events) : dev_events[i].ev = "status" /\ dev_events[i].res = "ok"

Deployed ==
    /\ Did("validate", "", "ok")
    /\ Did("write", "candidate", "ok")
    /\ Did("git", "commit", "ok")
    /\ Did("git", "push", "ok")

CleanUntilCommit ==
    /\ Did("validate", "", "ok")
    /\ Did("write", "candidate", "ok")
    /\ Did("git", "config", "ok")
    /\ Did("git", "add", "ok")

\* C19: when the validated candidate equals the pre-image (and nothing failed
\* up to the commit), the engine skips commit and push and the task ends in the
\* success status, not in DEPLOY_FAILED.
C19_NoOpDeploy ==
    (Finished /\ CleanUntilCommit /\ new_code = cur_code)
    => /\ ~Tried("git", "commit") /\ ~Tried("git", "push")
       /\ TaskStatus = SuccessStatus
       /\ TaskStatus # "DEPLOY_FAILED"

\* the commit of an unchanged file failed and the task ended DEPLOY_FAILED
C19_Witness ==
    /\ dev_pc = "done"
    /\ CleanUntilCommit
    /\ new_code = cur_code
    /\ Did("git", "commit", "raised")
    /\ Did("status", "DEPLOY_FAILED", "ok")
    /\ TaskStatus = "DEPLOY_FAILED"

\* an exception was raised after the backup was stored, outside the handler
RaisedAfterBackup ==
    /\ Did("backup", task.id, "ok")
    /\ \E i \in 1..Len(dev_events) :
          /\ dev_events[i].res = "raised"
          /\ \/ dev_events[i].ev \in {"local_copy", "get_agents", "git"}
             \/ dev_events[i].ev = "write" /\ dev_events[i].arg # "restore"
             \/ dev_events[i].ev = "status" /\ dev_events[i].arg # "DEPLOY_FAILED"

\* C20: after any exception raised past the backup step, the engine attempts
\* the restore of the pre-image, the update to DEPLOY_FAILED and the failure
\* notification; the restore is attempted even when the update fails.
C20_FailureHandling ==
    (Finished /\ RaisedAfterBackup)
    => /\ Tried("write", "restore")
       /\ Tried("status", "DEPLOY_FAILED")
       /\ Tried("notify", "failed")

\* the push failed, the DEPLOY_FAILED update raised, and the candidate stayed
\* in the artifact because the restore was never attempted
C20_Witness ==
    /\ dev_pc = "raised"
    /\ Did("git", "push", "raised")
    /\ Did("status", "DEPLOY_FAILED", "raised")
    /\ ~Tried("write", "restore")
    /\ disk[file_path] = new_code
    /\ new_code # cur_code

-----------------------------------------------------------------------------
(* Claims about run_autonomous_engine, under SpecEng *)

\* how the iterations of the user loop that are over ended
EngEnds == {eng_done[i] : i \in 1..Len(eng_done)}
\* the events of the current iteration of the keyword loop that belong to a cache
CacheEvents(name) == SelectSeq(topic_events, LAMBDA e : e.of = name)
\* the keyword of the current iteration of the keyword loop
TopicWord == topic_events[1].of
\* the generative calls of the current iteration made for single items of news
ItemCalls ==
    SelectSeq(topic_events, LAMBDA e : e.what = "call" /\ e.of \in {"pm_summary", "impact"})
\* the iteration of the keyword loop read a cached row
CacheHit == \E i \in 1..Len(topic_events) :
               topic_events[i].what = "select" /\ topic_events[i].how = "hit"
\* the iteration of the keyword loop recorded an analysed entry
TopicAnalysed ==
    /\ topic_events # <<>>
    /\ topic_events[Len(topic_events)] = EngEv("recorded", TopicWord, "analysed")

\* C21: when the processing of one topic of a consumer raises, the consumer's
\* remaining topics are still processed, every one of the K topics has an entry
\* (a real one or a placeholder) and the consumer's report is still written.
\* The code has one handler, around the whole iteration of the user loop
\* (line 1443): the exception ends the consumer's iteration.
C21_TopicIsolation ==
    \A d \in EngEnds :
        d.end = "topic_raised" => d.words = d.topics /\ d.upsert # "none"

\* the second topic of a consumer raised after the first was recorded: no
\* report was written for the consumer
C21_Witness ==
    \E d \in EngEnds :
        /\ d.end = "topic_raised"
        /\ d.topics = 2
        /\ d.words = 1
        /\ d.upsert = "none"
        /\ d.send = "none"

\* C22: when a cached row is found for the topic, the collection of the topic's
\* raw items and all its calls to the generative service are skipped.  The
\* code reads its two caches (videos, expert contents) only after it has
\* collected the news and summarized every item, and goes on to the analysis
\* calls after a hit.
C22_CacheHitSkips ==
    CacheHit => \A i \in 1..Len(topic_events) : topic_events[i].what \notin {"collect", "call"}

\* a topic whose videos came from the cache, with its news collected and its
\* items and briefs generated
C22_Witness ==
    /\ TopicAnalysed
    /\ CacheEvents("youtube_cache")[1] = EngEv("select", "youtube_cache", "hit")
    /\ \E i \in 1..Len(topic_events) : topic_events[i] = EngEv("collect", "news", "ok")
    /\ Len(ItemCalls) >= 2
    /\ \E i \in 1..Len(topic_events) : topic_events[i] = EngEv("call", "ba_brief", "")

\* C23: in both cache functions, after a miss whose collection returned, the
\* write of the collected value is attempted once, the function returns the
\* collected value whether the write succeeded or raised, and a write that
\* succeeded left that value in the table.
C23_MissWritesBestEffort ==
    \A name \in {"youtube_cache", "expert_cache"} :
        LET ce == CacheEvents(name)
            tbl == IF name = "youtube_cache" THEN youtube_cache ELSE expert_cache
        IN  (ce # <<>> /\ ce[1].how = "miss")
            => /\ Len(ce) = 4
               /\ ce[2] = EngEv("collect", name, "ok")
               /\ ce[3].what = "upsert"
               /\ ce[3].how \in {"ok", "raised"}
               /\ ce[4] = EngEv("return", name, CurUser.id)
               /\ ce[3].how = "ok" => tbl[TopicWord] = CurUser.id
               /\ ce[3].how = "raised" => tbl[TopicWord] = NoRow

\* a miss of the video cache whose write raised: the loop went on with the
\* collected videos
C23_Witness ==
    /\ eng_pc = "expert"
    /\ CacheEvents("youtube_cache") =
          << EngEv("select", "youtube_cache", "miss"),
             EngEv("collect", "youtube_cache", "ok"),
             EngEv("upsert", "youtube_cache", "raised"),
             EngEv("return", "youtube_cache", CurUser.id) >>

\* C24: for a topic with N raw items the dispatcher makes one batch call, or
\* at most N calls for single items.  The code has no batch call and makes two
\* calls for every item (lines 1314 and 1319).
C24_Batched == TopicAnalysed => Len(ItemCalls) <= news_n

\* a topic with two items of news and four calls for single items
C24_Witness ==
    /\ TopicAnalysed
    /\ news_n = 2
    /\ Len(ItemCalls) = 4

\* a step after the write leaves every report stored or not, with the content
\* it had
ReportsKept ==
    eng_pc \in {"send", "flag"}
    => \A u \in UserIds : reports'[u].content = reports[u].content
                           /\ reports'[u].stored = reports[u].stored

\* C25: a report that was not written (the upsert raised or answered no row)
\* is never mailed, and the consumers after it are still processed; a report
\* is written at most once for a consumer, and the steps after the write
\* (delivery, the update of the flag) leave its content as written.
C25_StoreAndDeliver ==
    /\ [](/\ \A d \in EngEnds :
               /\ d.upsert # "ok" => d.send = "none"
               /\ d.writes <= 1
          /\ eng_pc \in {"after", "done"} => Len(eng_done) = Len(user_settings))
    /\ [][ReportsKept]_vars

\* the upsert of the first consumer raised, and the last consumer's report was
\* written while its delivery failed
C25_Witness ==
    /\ Len(eng_done) = Len(user_settings)
    /\ eng_done[1].upsert = "raised"
    /\ eng_done[1].send = "none"
    /\ eng_done[Len(eng_done)].upsert = "ok"
    /\ eng_done[Len(eng_done)].send = "failed"
    /\ reports[eng_done[Len(eng_done)].user].stored

\* C26: a report's email_sent is true only if the mail server accepted a mail
\* with that consumer's report of the day, in this process or an earlier one.
C26_FlagOnlyAfterSend ==
    \A u \in UserIds : reports[u].email_sent => u \in outbox

\* the process was killed after the second report was mailed and before its
\* flag was written; the flag of the first was set in this process
C26_Witness ==
    /\ eng_pc = "crashed"
    /\ Len(eng_done) = 2
    /\ eng_done[1].send = "ok"
    /\ eng_done[1].flag = "ok"
    /\ reports[eng_done[1].user].email_sent
    /\ \E u \in UserIds : u \in outbox /\ reports[u].stored /\ ~reports[u].email_sent

\* C27: the upsert of the report is tried again after a failure, so that one
\* failure does not cost the consumer the report and its delivery.  The code
\* makes the upsert once (line 1403); when it raises, the handler of line 1443
\* ends the consumer's iteration.
C27_UpsertRetried ==
    \A d \in EngEnds : d.upsert = "raised" => d.writes > 1

\* the upsert raised at its only attempt: nothing of the consumer is stored
\* or mailed
C27_Witness ==
    \E d \in EngEnds :
        /\ d.end = "raised"
        /\ d.upsert = "raised"
        /\ d.writes = 1
        /\ d.send = "none"
        /\ ~reports[d.user].stored

-----------------------------------------------------------------------------
(* Claims about the statuses of dev_backlog, under SpecBacklog *)

\* the rows a step writes to dev_backlog: new ones, and old ones with a new status
RowsWritten == dev_backlog' \ dev_backlog
IsNewRow(r) == \A t \in dev_backlog : t.id # r.id
StatusesOf(rows) == {r.status : r \in rows}

WritesKnownStatus ==
    \A r \in RowsWritten :
        IF IsNewRow(r)
        THEN r.status = (IF r.source_approval_id # "" THEN "PENDING_MASTER" ELSE "PENDING")
        ELSE r.status \in {"BACKUP_FAILED", "VALIDATION_ERROR", "DEPLOYED", "DEPLOY_FAILED"}

-----------------------------------------------------------------------------
(* Claims about the entry point, under SpecMain *)

Called(f) == \E i \in 1..Len(main.calls) : main.calls[i] = f
Started == main.pc # "off"
\* the mode the process runs in: the one of the command line, or else the one
\* CRON_TYPE stands for, where every value but GOVERNANCE and INDUSTRY is
\* taken as BRIEFING (line 1896)
RunMode ==
    IF main.mode # "" THEN Upper(main.mode)
    ELSE IF Upper(main.cron_type) \in {"GOVERNANCE", "INDUSTRY"}
         THEN Upper(main.cron_type) ELSE "BRIEFING"

\* C29: the deployment engine runs only in DEV mode with a task id
\* (--backlog-id or BACKLOG_ID); DEV mode without an id calls nothing and
\* exits with code 1; in BRIEFING, GOVERNANCE and INDUSTRY modes the engine is
\* never called, and in DEV mode neither the dispatcher nor governance is.
C29_ModeDispatch ==
    Started =>
        /\ Called("run_self_evolution")
              => RunMode = "DEV" /\ BacklogIdOf(main) # ""
        /\ RunMode \in {"BRIEFING", "GOVERNANCE", "INDUSTRY"}
              => ~Called("run_self_evolution")
        /\ RunMode = "DEV"
              => ~Called("run_autonomous_engine") /\ ~Called("manage_deadline_approvals")
        /\ (RunMode = "DEV" /\ BacklogIdOf(main) = "" /\ main.pc = "exited")
              => main.calls = <<>> /\ main.exit = "1"
        /\ (RunMode = "DEV" /\ BacklogIdOf(main) # "" /\ main.pc = "exited")
              => main.calls = <<"run_self_evolution">>
        /\ (RunMode = "BRIEFING" /\ main.pc = "exited" /\ main.exit = "0")
              => main.calls = Briefing

\* --mode dev with an id from the environment: the engine alone ran
C29_Witness ==
    /\ main.pc = "exited"
    /\ main.mode = "dev"
    /\ main.backlog_id = ""
    /\ main.env_backlog_id = "t1"
    /\ main.calls = <<"run_self_evolution">>
    /\ main.exit = "0"

-----------------------------------------------------------------------------
(* Claims about the notifications of run_self_evolution, under SpecDev *)

\* a step that logs a notification
NotifyStep ==
    /\ Len(dev_events') = Len(dev_events) + 1
    /\ dev_events'[Len(dev_events')].ev = "notify"

\* the statement after each call of _notify
NotifyNext ==
    CASE dev_pc = "backup_notify" -> "backup_status"
      [] dev_pc = "validation_notify" -> "validation_status"
      [] dev_pc = "deployed_notify" -> "done"
      [] dev_pc = "exc" -> "exc_status"
      [] OTHER -> "none"

\* a state where a notification can be sent: whatever the send does, the
\* engine goes on at the same statement with the same task, artifact,
\* repository, backlog and backups
NotifyNotEscalated ==
    NotifyStep => /\ dev_pc' = NotifyNext
                  /\ UNCHANGED <<devLocals, devWorld, dev_backlog, runs>>

\* C30: a failure of the notification send is never escalated: whether the
\* send succeeds, returns failure or raises, the engine continues at the same
\* statement with the same task status and artifact content, so the rest of
\* the invocation, and with it the final status and content, is the same.
C30_NotifyNotEscalated == [][NotifyNotEscalated]_vars

\* the send of the validation-failure notice raised and could not be logged;
\* the task ended VALIDATION_ERROR with the artifact as before the invocation
C30_Witness ==
    /\ dev_pc = "done"
    /\ Did("notify", "validation_failed", "raised_unlogged")
    /\ TaskStatus = "VALIDATION_ERROR"
    /\ file_path # ""
    /\ disk[file_path] = cur_code

-----------------------------------------------------------------------------
(* C32: the attempts of send_email_report *)

Returned == send_pc = "returned"
Attempts == Len(GmailCalls(send_trace))
SomeSuccess == \E i \in 1..Len(send_trace) : send_trace[i].how = "sent"

\* the trace of an activation that made its attempts as the loop prescribes:
\* every attempt but the last one failed, by a return of False or by an
\* exception alike, and was followed by one sleep of 2 ** attempt seconds; the
\* last event is an attempt
WellFormedTrace ==
    /\ Len(send_trace) = 2 * Attempts - 1
    /\ \A i \in 1..Len(send_trace) :
          IF i % 2 = 1
          THEN /\ send_trace[i].what = "gmail"
               /\ send_trace[i].of = AttemptNames[(i + 1) \div 2]
               /\ i < Len(send_trace) => send_trace[i].how # "sent"
          ELSE /\ send_trace[i].what = "sleep"
               /\ send_trace[i].of = AttemptNames[Pow2((i \div 2) - 1)]

-----------------------------------------------------------------------------
(* C31: isolation of the consumers *)

\* the step ends an iteration of the user loop
EndsIteration == Len(eng_done') = Len(eng_done) + 1

\* whatever ended the iteration, the loop goes on with the next user; past the
\* last user the function goes on to the steps after the loop
LoopGoesOn ==
    /\ EndsIteration => eng_pc' = "user" /\ eng_user' = eng_user + 1
    /\ (eng_pc = "user" /\ eng_user > Len(user_settings) /\ eng_pc' # eng_pc)
          => eng_pc' \in {"after", "crashed"}

\* C31: an exception raised while one consumer is processed (collection,
\* analysis, report write, delivery) is caught at the consumer and the loop
\* goes on with the next one; short of the process being killed the loop runs
\* over every consumer, the steps after the loop are reached with one record
\* per consumer, and an exception leaves run_autonomous_engine only before the
\* loop or from the steps after it.
C31_ConsumerIsolation ==
    /\ [][LoopGoesOn]_vars
    /\ [](eng_pc \in {"after", "done"} => Len(eng_done) = Len(user_settings))
    /\ [](eng_pc = "raised" => Len(eng_done) \in {0, Len(user_settings)})

\* the delivery of the first consumer raised, the last one was served and the
\* steps after the loop ran
C31_Witness ==
    /\ eng_pc = "done"
    /\ eng_done[1].end = "raised"
    /\ eng_done[1].send = "raised"
    /\ eng_done[Len(eng_done)].end = "completed"
    /\ eng_done[Len(eng_done)].send = "ok"

-----------------------------------------------------------------------------
(* C37: a consumer already served today *)

LastDone == eng_done'[Len(eng_done')]

\* the iteration of a consumer whose report of today has email_sent true ends
\* at the head of the loop and touches no table, no cache and no mail
ServedIsSkipped ==
    (/\ eng_pc = "user"
     /\ eng_user <= Len(user_settings)
     /\ reports[CurUser.id].stored
     /\ reports[CurUser.id].email_sent
     /\ eng_pc' # "crashed")
    => /\ EndsIteration
       /\ LastDone.user = CurUser.id
       /\ LastDone.end \in {"already_sent", "chk_raised"}
       /\ LastDone.words = 0 /\ LastDone.writes = 0 /\ LastDone.send = "none"
       /\ UNCHANGED <<reports, youtube_cache, expert_cache, outbox, dbVars>>

\* a flag that is true stays true, and a mail goes only to a consumer whose
\* flag is not true
FlagGuardsMail ==
    /\ \A u \in UserIds : reports[u].email_sent => reports'[u].email_sent
    /\ outbox' # outbox =>
          /\ eng_pc = "send"
          /\ ~reports[CurUser.id].email_sent
          /\ outbox' = outbox \cup {CurUser.id}

\* C37: a consumer whose report of today has email_sent true causes no
\* collection, no generative call, no report write and no mail in a later run
\* of the day; the flag is never reset, so after a send whose flag update
\* succeeded the consumer gets no second mail that day.
C37_ServedOnce == [][ServedIsSkipped /\ FlagGuardsMail]_vars

\* the first consumer had been served by an earlier run and was skipped, the
\* run went on to serve the last one
C37_Witness ==
    /\ eng_pc = "done"
    /\ eng_done[1].user = "u1"
    /\ eng_done[1].end = "already_sent"
    /\ reports["u1"].email_sent
    /\ reports["u1"].content = OldContent
    /\ eng_done[Len(eng_done)].flag = "ok"
    /\ outbox = {"u1", "u3"}

-----------------------------------------------------------------------------
(* C38: the update of the flag *)

\* a step of the loop of line 1418 that is its third attempt ends the
\* iteration of the user loop as completed, whether the update was made or not
ThirdTryEnds ==
    (eng_pc = "flag" /\ eng_pc' # "crashed")
    => IF FlagTries(user_events) = 2 \/ EndsIteration
       THEN /\ EndsIteration
            /\ eng_pc' = "user"
            /\ eng_user' = eng_user + 1
            /\ LastDone.end = "completed"
            /\ LastDone.flag \in {"ok", "failed"}
            /\ LastDone.flag = "failed" => FlagTries(user_events) = 2 /\ UNCHANGED reports
       ELSE /\ FlagTries(user_events') = FlagTries(user_events) + 1
            /\ UNCHANGED reports

\* C38: the update of email_sent is attempted at most 3 times per consumer
\* and run; after the third failure the step is given up without an
\* exception and the dispatcher continues with the next consumer.
C38_FlagUpdateBounded ==
    /\ [](eng_pc = "flag" => FlagTries(user_events) <= 2)
    /\ [][ThirdTryEnds]_vars

\* the update failed three times for the first consumer, whose mail had been
\* sent; the loop went on and served the last consumer
C38_Witness ==
    /\ Len(eng_done) = Len(user_settings)
    /\ eng_done[1].send = "ok"
    /\ eng_done[1].flag = "failed"
    /\ eng_done[1].end = "completed"
    /\ eng_done[Len(eng_done)].end = "completed"
    /\ ~reports["u1"].email_sent

-----------------------------------------------------------------------------
(* C39: the self-critique step and the delivery *)

\* whatever run_agent_self_reflection did, the next statement is the send and
\* nothing the delivery reads or writes has changed
ReflectKeeps ==
    (eng_pc = "reflect" /\ eng_pc' # "crashed")
    => /\ eng_pc' = "send"
       /\ Len(user_events') = Len(user_events) + 1
       /\ user_events'[Len(user_events')].what = "reflect"
       /\ SubSeq(user_events', 1, Len(user_events)) = user_events
       /\ UNCHANGED <<eng_user, by_keyword, eng_done, reports, youtube_cache,
                      expert_cache, outbox, agents, dev_backlog>>

\* C39: a failure in run_agent_self_reflection (feedback read, generation,
\* proposal insert) never prevents or changes the delivery: after the step
\* the send is made and then the update of the flag, as after a step that
\* succeeded.
C39_ReflectionHarmless ==
    /\ [][ReflectKeeps]_vars
    /\ [](eng_pc = "flag" => /\ How(user_events, "reflect") \in {"ok", "failed"}
                             /\ How(user_events, "send") \in {"ok", "failed"})
    /\ [](\A i \in 1..Len(eng_done) :
             eng_done[i].upsert = "ok" => /\ eng_done[i].send # "none"
                                          /\ eng_done[i].send # "raised" =>
                                                eng_done[i].flag \in {"ok", "failed"})

\* the self-critique failed for the consumer with feedback, whose mail was
\* sent and whose flag is about to be updated
C39_Witness ==
    /\ eng_pc = "flag"
    /\ CurUser.id \in FeedbackOn
    /\ How(user_events, "reflect") = "failed"
    /\ How(user_events, "send") = "ok"
    /\ CurUser.id \in outbox
    /\ pending_approvals = {}

-----------------------------------------------------------------------------
(* C40: a pass before the cutoff *)

\* the clock reads a time of the day before 23:30
BeforeCutoff(t) == t[1] < 23 \/ (t[1] = 23 /\ t[2] < 30)

\* the step starts a pass
StartsPass ==
    /\ Len(gov_events') = Len(gov_events) + 1
    /\ gov_events'[Len(gov_events')].ev = "pass"

\* a pass started before the cutoff is over at once, and no table changed
EarlyPassIdle ==
    (StartsPass /\ BeforeCutoff(now'))
    => /\ gov_pc' = "done"
       /\ pending' = <<>>
       /\ UNCHANGED <<dev_backlog, pending_approvals, agents>>

\* C40: a governance pass started before the daily cutoff reads and writes
\* nothing: no select of the proposals is made, and the proposals, the agents'
\* instructions and the backlog are as they were.
C40_EarlyPassIdle ==
    /\ [][EarlyPassIdle]_vars
    /\ []((LastPassIdx > 0 /\ BeforeCutoff(now)) => gov_pc = "done" /\ PassEvents = <<>>)

\* a pass at 23:29 with two PENDING proposals, one of them asking for a
\* follow-up: all left as they were
C40_Witness ==
    /\ LastPassIdx > 0
    /\ now = <<23, 29>>
    /\ gov_pc = "done"
    /\ Cardinality(PendingRows(pending_approvals)) = 2
    /\ \E q \in pending_approvals : q.needs_dev
    /\ dev_backlog = {}
    /\ \A r \in DOMAIN agents : agents[r] = "i0"

-----------------------------------------------------------------------------
(* C33: a degraded result of the generation call *)

\* call_agent gave the engine one of its two placeholders
GotDegraded == Did("generate", "DEV", "degraded") \/ Did("generate", "DEV", "nodata")

-----------------------------------------------------------------------------
(* C35: the tasks the program registers itself *)

\* the artifact, the repository and the backups
Artifacts == <<disk, git, code_backups, local_baks>>

ArtifactsKept == UNCHANGED Artifacts

\* C35: with a backlog that holds only tasks the program created (by the
\* follow-up of governance or by the MASTER initiative) and no one else
\* changing a status, every such task stays PENDING_MASTER or PENDING, every
\* invocation of the deployment engine on one of them ends at the status
\* check, and the artifact, the repository and the backups never change.
C35_OwnTasksNotRun ==
    /\ [][ArtifactsKept]_vars
    /\ [](\A row \in dev_backlog : row.status \in {"PENDING_MASTER", "PENDING"})
    /\ [](dev_pc \in {"off", "start", "select", "done", "exc", "exc_status",
                    "exc_restore", "raised"})
    /\ [](Did("select", backlog_id, "ok") => FALSE)

\* governance registered t1 and the initiative t2; the engine was invoked on
\* both and skipped both
C35_Witness ==
    /\ \E r1, r2 \in dev_backlog :
          /\ r1.id = "t1" /\ r1.status = "PENDING_MASTER" /\ r1.source_approval_id = "p1"
          /\ r2.id = "t2" /\ r2.status = "PENDING"
    /\ runs = 2
    /\ backlog_id = "t2"
    /\ dev_pc = "done"
    /\ Did("select", "t2", "skip")

-----------------------------------------------------------------------------
(* C34: a sentinel handed back by the invocation layer is not stored *)

PropEvents(fns) == {i \in DOMAIN prop_log : prop_log[i].fn \in fns}

\* the calls that handed back one of the two sentinels
SentinelCalls == {i \in DOMAIN prop_log : prop_log[i].ret \in {"degraded", "nodata"}}

PropRows(fns) == {i \in PropEvents(fns) : prop_log[i].stored = "row"}

\* the pipeline wrote only after BRIEF and HR both answered with a text
PipelineAfterTexts ==
    \A i \in PropEvents({"add", "remove"}) :
        /\ \E j \in 1..(i - 1) : prop_log[j].fn = "brief" /\ prop_log[j].ret = "text"
        /\ \E j \in 1..(i - 1) : prop_log[j].fn = "hr" /\ prop_log[j].ret = "text"

\* every row of the two tables is the row of one call that answered with a text
RowsFromTexts ==
    /\ Cardinality(pending_approvals) + Cardinality(dev_backlog)
           = Cardinality(PropRows({"reflect", "initiative", "add", "remove"}))
    /\ \A i \in PropRows({"reflect", "initiative", "add", "remove"}) :
           prop_log[i].ret = "text"

\* C34 as stated: a sentinel handed back by the invocation layer is never
\* stored by the three writers, and so no proposal that waits for approval
\* has a sentinel as its instruction.  The second half fails: an answer that
\* is not a sentinel can be stored as one, because strip_markdown is applied
\* once more after the test of line 1749.
C34_Original ==
    /\ \A i \in SentinelCalls : prop_log[i].stored = "none"
    /\ \A row \in pending_approvals :
           row.status = "PENDING" => row.proposed_instruction \notin Sentinels

\* C34: a call of the three writers that was handed a sentinel by the
\* invocation layer writes no row: no proposal and no backlog task; the
\* pipeline writes only when BRIEF and HR both answered with a text, and
\* every row of the two tables comes from a call that answered with a text.
C34_SentinelNotStored ==
    /\ \A i \in SentinelCalls : prop_log[i].stored = "none"
    /\ PipelineAfterTexts
    /\ RowsFromTexts

\* each writer was handed a sentinel once, and a row was written for a text
C34_Witness ==
    /\ prop_pc = "done"
    /\ \E i \in SentinelCalls : prop_log[i].fn = "reflect"
    /\ \E i \in SentinelCalls : prop_log[i].fn = "initiative"
    /\ \E i \in SentinelCalls : prop_log[i].fn = "hr"
    /\ PropRows({"initiative"}) # {}

-----------------------------------------------------------------------------
(* C36: what the pipeline of BRIEF and HR may propose *)

OrgRows(head) ==
    {row \in pending_approvals :
        row.proposed_instruction # <<>> /\ row.proposed_instruction[1] = head}

\* C36: run_brief_hr_org_pipeline never inserts a removal proposal for one of
\* the roles BRIEF, HR, MASTER, DEV, QA nor for a role that is not in table
\* agents, and never inserts an add proposal for a role that is in the table,
\* whatever the service answers.
C36_OrgProposalsGuarded ==
    /\ \A row \in OrgRows("REMOVE_AGENT") :
           /\ row.agent_role \notin {"BRIEF", "HR", "MASTER", "DEV", "QA"}
           /\ row.agent_role \in DOMAIN agents
    /\ \A row \in OrgRows("ADD_AGENT") : row.agent_role \notin DOMAIN agents

\* HR approved an addition of a new and of a present role, and a removal of a
\* protected, a present and an absent role: one addition and one removal are
\* proposed
C36_Witness ==
    /\ prop_pc = "done"
    /\ \E i \in PropEvents({"add"}) :
           prop_log[i].role = "PM" /\ prop_log[i].stored = "none"
    /\ \E i \in PropEvents({"remove"}) :
           prop_log[i].role = "BRIEF" /\ prop_log[i].stored = "none"
    /\ \E i \in PropEvents({"remove"}) :
           prop_log[i].role = "GONE" /\ prop_log[i].stored = "none"
    /\ \E row \in OrgRows("ADD_AGENT") : row.agent_role = "NEW"
    /\ \E row \in OrgRows("REMOVE_AGENT") : row.agent_role = "PM"

====
